---- MODULE Spec2Model ----
(***************************************************************************)
(* Task management application: the in-memory REST API (GET and POST      *)
(* /api/tasks) and the task query pipeline (validate, filter, sort,       *)
(* statistics).                                                           *)
(*                                                                         *)
(* Text (title, description, category, search term) is a sequence of      *)
(* one-character strings, so that length, trimming, lower-casing and      *)
(* substring search are computed.  An optional field of a JavaScript      *)
(* object (description?, category?, dueDate?) and a null query parameter  *)
(* are fields missing from the record.  A Date is the number of minutes   *)
(* since 2025-01-01T00:00Z.                                                *)
(***************************************************************************)
EXTENDS Integers, Sequences, FiniteSets, TLC

VARIABLES
    tasks,      \* the module-level store of route.ts
    clock,      \* the wall clock read by new Date()
    request,    \* the request handled last
    response,   \* the response returned for it
    view,       \* the call of a list view or of sortTasks: its props or arguments
    output,     \* what that call returned
    inflight    \* the creation requests sent concurrently: how far POST has come

vars == <<tasks, clock, request, response, view, output, inflight>>

(***************************************************************************)
(* Strings                                                                 *)
(***************************************************************************)
Range(s) == {s[i] : i \in DOMAIN s}

Min(S) == CHOOSE x \in S : \A y \in S : x <= y

Max(S) == CHOOSE x \in S : \A y \in S : x >= y

UpperCaseLetters ==
    <<"A", "B", "C", "D", "E", "F", "G", "H", "I", "J", "K", "L", "M",
      "N", "O", "P", "Q", "R", "S", "T", "U", "V", "W", "X", "Y", "Z">>

LowerCaseLetters ==
    <<"a", "b", "c", "d", "e", "f", "g", "h", "i", "j", "k", "l", "m",
      "n", "o", "p", "q", "r", "s", "t", "u", "v", "w", "x", "y", "z">>

LowerCaseOf ==
    [c \in Range(UpperCaseLetters) |->
        LowerCaseLetters[CHOOSE i \in DOMAIN UpperCaseLetters : UpperCaseLetters[i] = c]]

\* String.prototype.toLowerCase
toLowerCase(s) ==
    [i \in 1..Len(s) |-> IF s[i] \in DOMAIN LowerCaseOf THEN LowerCaseOf[s[i]] ELSE s[i]]

\* String.prototype.includes
includes(s, searchString) ==
    \E i \in 0..(Len(s) - Len(searchString)) :
        SubSeq(s, i + 1, i + Len(searchString)) = searchString

WhiteSpace == {" ", "\t", "\n"}

\* String.prototype.trim, as applied by zod's .trim()
trim(s) ==
    LET kept == {i \in 1..Len(s) : s[i] \notin WhiteSpace}
    IN  IF kept = {} THEN <<>> ELSE SubSeq(s, Min(kept), Max(kept))

\* a text of n copies of the character c
Repeat(c, n) == [i \in 1..n |-> c]

\* new Date('2025-01-<day>T<hour>:<minute>:00.000Z')
At(day, hour, minute) == ((day - 1) * 24 + hour) * 60 + minute

(***************************************************************************)
(* Types                                                                   *)
(***************************************************************************)
TaskPriority == [LOW |-> "low", MEDIUM |-> "medium", HIGH |-> "high"]

TaskStatus == [ALL |-> "all", COMPLETED |-> "completed", PENDING |-> "pending"]

\* Object.values(TaskPriority), Object.values(TaskStatus): declaration order
TaskPriorityValues == <<TaskPriority.LOW, TaskPriority.MEDIUM, TaskPriority.HIGH>>

TaskStatusValues == <<TaskStatus.ALL, TaskStatus.COMPLETED, TaskStatus.PENDING>>

HTTP_STATUS == [OK |-> 200, CREATED |-> 201, BAD_REQUEST |-> 400, INTERNAL_SERVER_ERROR |-> 500]

API_ERROR_CODES ==
    [VALIDATION_ERROR |-> "VALIDATION_ERROR",
     INVALID_REQUEST_BODY |-> "INVALID_REQUEST_BODY",
     INVALID_QUERY_PARAMS |-> "INVALID_QUERY_PARAMS",
     INTERNAL_SERVER_ERROR |-> "INTERNAL_SERVER_ERROR"]

\* the record r with the field name added when present holds
WithField(r, present, name, value) == IF present THEN (name :> value) @@ r ELSE r

\* the object with no field
EmptyObject == [name \in {} |-> name]

\* an optional input: missing, or one of the values
OptionalWord(values) == {<<FALSE, "">>} \cup {<<TRUE, v>> : v \in values}

OptionalText(values) == {<<FALSE, <<>>>>} \cup {<<TRUE, v>> : v \in values}

(***************************************************************************)
(* The store                                                               *)
(***************************************************************************)
SeedTasks ==
    <<
      [id |-> "1a2b3c4d-5e6f-7890-abcd-ef1234567890",
       title |->
          <<"I", "m", "p", "l", "e", "m", "e", "n", "t", " ", "u", "s", "e", "r", " ", "a", "u", "t",
            "h", "e", "n", "t", "i", "c", "a", "t", "i", "o", "n", " ", "s", "y", "s", "t", "e", "m">>,
       description |->
          <<"S", "e", "t", " ", "u", "p", " ", "O", "A", "u", "t", "h", " ", "i", "n", "t", "e", "g",
            "r", "a", "t", "i", "o", "n", " ", "w", "i", "t", "h", " ", "G", "o", "o", "g", "l", "e",
            " ", "a", "n", "d", " ", "G", "i", "t", "H", "u", "b", " ", "f", "o", "r", " ", "s", "e",
            "c", "u", "r", "e", " ", "u", "s", "e", "r", " ", "l", "o", "g", "i", "n", ".", " ", "I",
            "n", "c", "l", "u", "d", "e", " ", "p", "r", "o", "p", "e", "r", " ", "e", "r", "r", "o",
            "r", " ", "h", "a", "n", "d", "l", "i", "n", "g", " ", "a", "n", "d", " ", "u", "s", "e",
            "r", " ", "s", "e", "s", "s", "i", "o", "n", " ", "m", "a", "n", "a", "g", "e", "m", "e",
            "n", "t", ".">>,
       completed |-> FALSE,
       priority |-> TaskPriority.HIGH,
       createdAt |-> At(8, 10, 0),
       updatedAt |-> At(9, 14, 30),
       category |->
          <<"D", "e", "v", "e", "l", "o", "p", "m", "e", "n", "t">>],
      [id |-> "2b3c4d5e-6f78-90ab-cdef-123456789012",
       title |->
          <<"D", "e", "s", "i", "g", "n", " ", "s", "y", "s", "t", "e", "m", " ", "d", "o", "c", "u",
            "m", "e", "n", "t", "a", "t", "i", "o", "n">>,
       description |->
          <<"C", "r", "e", "a", "t", "e", " ", "c", "o", "m", "p", "r", "e", "h", "e", "n", "s", "i",
            "v", "e", " ", "d", "o", "c", "u", "m", "e", "n", "t", "a", "t", "i", "o", "n", " ", "f",
            "o", "r", " ", "o", "u", "r", " ", "d", "e", "s", "i", "g", "n", " ", "s", "y", "s", "t",
            "e", "m", " ", "i", "n", "c", "l", "u", "d", "i", "n", "g", " ", "c", "o", "m", "p", "o",
            "n", "e", "n", "t", " ", "g", "u", "i", "d", "e", "l", "i", "n", "e", "s", ",", " ", "c",
            "o", "l", "o", "r", " ", "p", "a", "l", "e", "t", "t", "e", "s", ",", " ", "a", "n", "d",
            " ", "u", "s", "a", "g", "e", " ", "e", "x", "a", "m", "p", "l", "e", "s", ".">>,
       completed |-> TRUE,
       priority |-> TaskPriority.MEDIUM,
       createdAt |-> At(5, 9, 15),
       updatedAt |-> At(7, 16, 45),
       category |->
          <<"D", "e", "s", "i", "g", "n">>],
      [id |-> "3c4d5e6f-7890-abcd-ef12-34567890abcd",
       title |->
          <<"F", "i", "x", " ", "r", "e", "s", "p", "o", "n", "s", "i", "v", "e", " ", "l", "a", "y",
            "o", "u", "t", " ", "i", "s", "s", "u", "e", "s">>,
       description |->
          <<"A", "d", "d", "r", "e", "s", "s", " ", "m", "o", "b", "i", "l", "e", " ", "l", "a", "y",
            "o", "u", "t", " ", "p", "r", "o", "b", "l", "e", "m", "s", " ", "o", "n", " ", "t", "h",
            "e", " ", "d", "a", "s", "h", "b", "o", "a", "r", "d", " ", "a", "n", "d", " ", "t", "a",
            "s", "k", " ", "l", "i", "s", "t", " ", "p", "a", "g", "e", "s", ".", " ", "T", "e", "s",
            "t", " ", "a", "c", "r", "o", "s", "s", " ", "d", "i", "f", "f", "e", "r", "e", "n", "t",
            " ", "d", "e", "v", "i", "c", "e", "s", " ", "a", "n", "d", " ", "s", "c", "r", "e", "e",
            "n", " ", "s", "i", "z", "e", "s", ".">>,
       completed |-> FALSE,
       priority |-> TaskPriority.HIGH,
       createdAt |-> At(10, 7, 0),
       updatedAt |-> At(10, 7, 0),
       category |->
          <<"D", "e", "v", "e", "l", "o", "p", "m", "e", "n", "t">>],
      [id |-> "4d5e6f78-90ab-cdef-1234-567890abcdef",
       title |->
          <<"T", "e", "a", "m", " ", "s", "t", "a", "n", "d", "u", "p", " ", "m", "e", "e", "t", "i",
            "n", "g">>,
       completed |-> TRUE,
       priority |-> TaskPriority.LOW,
       createdAt |-> At(9, 10, 0),
       updatedAt |-> At(9, 11, 0),
       category |->
          <<"M", "e", "e", "t", "i", "n", "g", "s">>],
      [id |-> "5e6f7890-abcd-ef12-3456-7890abcdef12",
       title |->
          <<"U", "p", "d", "a", "t", "e", " ", "p", "r", "o", "j", "e", "c", "t", " ", "R", "E", "A",
            "D", "M", "E">>,
       description |->
          <<"A", "d", "d", " ", "i", "n", "s", "t", "a", "l", "l", "a", "t", "i", "o", "n", " ", "i",
            "n", "s", "t", "r", "u", "c", "t", "i", "o", "n", "s", ",", " ", "A", "P", "I", " ", "d",
            "o", "c", "u", "m", "e", "n", "t", "a", "t", "i", "o", "n", ",", " ", "a", "n", "d", " ",
            "c", "o", "n", "t", "r", "i", "b", "u", "t", "i", "o", "n", " ", "g", "u", "i", "d", "e",
            "l", "i", "n", "e", "s", " ", "t", "o", " ", "t", "h", "e", " ", "m", "a", "i", "n", " ",
            "R", "E", "A", "D", "M", "E", " ", "f", "i", "l", "e", ".">>,
       completed |-> FALSE,
       priority |-> TaskPriority.MEDIUM,
       createdAt |-> At(10, 4, 0),
       updatedAt |-> At(10, 4, 0),
       category |->
          <<"D", "o", "c", "u", "m", "e", "n", "t", "a", "t", "i", "o", "n">>],
      [id |-> "6f789012-3456-7890-abcd-ef123456789a",
       title |->
          <<"C", "o", "d", "e", " ", "r", "e", "v", "i", "e", "w", " ", "f", "o", "r", " ", "P", "R",
            " ", "#", "1", "2", "3">>,
       completed |-> FALSE,
       priority |-> TaskPriority.LOW,
       createdAt |-> At(10, 9, 30),
       updatedAt |-> At(10, 9, 30),
       category |->
          <<"D", "e", "v", "e", "l", "o", "p", "m", "e", "n", "t">>],
      [id |-> "7890abcd-ef12-3456-7890-abcdef123456",
       title |->
          <<"I", "m", "p", "l", "e", "m", "e", "n", "t", " ", "d", "a", "r", "k", " ", "m", "o", "d",
            "e", " ", "t", "h", "e", "m", "e">>,
       description |->
          <<"A", "d", "d", " ", "d", "a", "r", "k", " ", "m", "o", "d", "e", " ", "s", "u", "p", "p",
            "o", "r", "t", " ", "a", "c", "r", "o", "s", "s", " ", "t", "h", "e", " ", "e", "n", "t",
            "i", "r", "e", " ", "a", "p", "p", "l", "i", "c", "a", "t", "i", "o", "n", " ", "w", "i",
            "t", "h", " ", "p", "r", "o", "p", "e", "r", " ", "c", "o", "l", "o", "r", " ", "s", "c",
            "h", "e", "m", "e", "s", " ", "a", "n", "d", " ", "u", "s", "e", "r", " ", "p", "r", "e",
            "f", "e", "r", "e", "n", "c", "e", " ", "p", "e", "r", "s", "i", "s", "t", "e", "n", "c",
            "e", ".">>,
       completed |-> FALSE,
       priority |-> TaskPriority.MEDIUM,
       createdAt |-> At(6, 13, 20),
       updatedAt |-> At(8, 10, 15),
       category |->
          <<"D", "e", "v", "e", "l", "o", "p", "m", "e", "n", "t">>],
      [id |-> "890abcde-f123-4567-890a-bcdef1234567",
       title |->
          <<"P", "e", "r", "f", "o", "r", "m", "a", "n", "c", "e", " ", "o", "p", "t", "i", "m", "i",
            "z", "a", "t", "i", "o", "n", " ", "a", "u", "d", "i", "t">>,
       description |->
          <<"C", "o", "n", "d", "u", "c", "t", " ", "c", "o", "m", "p", "r", "e", "h", "e", "n", "s",
            "i", "v", "e", " ", "p", "e", "r", "f", "o", "r", "m", "a", "n", "c", "e", " ", "a", "n",
            "a", "l", "y", "s", "i", "s", " ", "a", "n", "d", " ", "i", "m", "p", "l", "e", "m", "e",
            "n", "t", " ", "o", "p", "t", "i", "m", "i", "z", "a", "t", "i", "o", "n", "s", " ", "f",
            "o", "r", " ", "f", "a", "s", "t", "e", "r", " ", "p", "a", "g", "e", " ", "l", "o", "a",
            "d", " ", "t", "i", "m", "e", "s", ".">>,
       completed |-> TRUE,
       priority |-> TaskPriority.HIGH,
       createdAt |-> At(3, 11, 0),
       updatedAt |-> At(5, 15, 30),
       category |->
          <<"P", "e", "r", "f", "o", "r", "m", "a", "n", "c", "e">>]
    >>

(***************************************************************************)
(* GET /api/tasks                                                          *)
(***************************************************************************)
MaxSearchLength == 100

\* validateAndParseQuery, the status rule: searchParams.get(name) is null when
\* the field is missing; `status && ...` skips null and the empty string alike
statusErrors(searchParams) ==
    IF /\ "status" \in DOMAIN searchParams
       /\ searchParams.status # ""
       /\ searchParams.status \notin Range(TaskStatusValues)
    THEN <<[param |-> "status", message |-> "Invalid status",
            value |-> searchParams.status, allowed |-> TaskStatusValues]>>
    ELSE <<>>

\* validateAndParseQuery, the priority rule
priorityErrors(searchParams) ==
    IF /\ "priority" \in DOMAIN searchParams
       /\ searchParams.priority # ""
       /\ searchParams.priority \notin Range(TaskPriorityValues)
    THEN <<[param |-> "priority", message |-> "Invalid priority",
            value |-> searchParams.priority, allowed |-> TaskPriorityValues]>>
    ELSE <<>>

\* searchErrors in a fail-fast validation: silent once another rule has failed
searchErrorsFailFast(searchParams) ==
    IF /\ statusErrors(searchParams) = <<>>
       /\ priorityErrors(searchParams) = <<>>
       /\ "search" \in DOMAIN searchParams
       /\ searchParams.search # <<>>
       /\ Len(searchParams.search) > MaxSearchLength
    THEN <<[param |-> "search",
            message |-> "Search term must be 100 characters or less"]>>
    ELSE <<>>
\* searchErrors that refuses a search parameter given with an empty value
searchErrorsRefusesEmpty(searchParams) ==
    IF "search" \in DOMAIN searchParams
       /\ (searchParams.search = <<>> \/ Len(searchParams.search) > MaxSearchLength)
    THEN <<[param |-> "search",
            message |-> "Search term must be 100 characters or less"]>>
    ELSE <<>>

\* validateAndParseQuery, the search rule
searchErrors(searchParams) ==
    IF /\ "search" \in DOMAIN searchParams
       /\ searchParams.search # <<>>
       /\ Len(searchParams.search) > MaxSearchLength
    THEN <<[param |-> "search",
            message |-> "Search term must be 100 characters or less"]>>
    ELSE <<>>

validateAndParseQuery(searchParams) ==
    LET errors ==
            statusErrors(searchParams) \o priorityErrors(searchParams)
                \o searchErrors(searchParams)
        withStatus ==
            WithField(EmptyObject, "status" \in DOMAIN searchParams,
                      "status", searchParams.status)
        withPriority ==
            WithField(withStatus, "priority" \in DOMAIN searchParams,
                      "priority", searchParams.priority)
        \* search: search || null
        params ==
            WithField(withPriority,
                      "search" \in DOMAIN searchParams /\ searchParams.search # <<>>,
                      "search", searchParams.search)
    IN  [isValid |-> Len(errors) = 0, errors |-> errors, params |-> params]

\* filterTasksKeeps without the tests on the status
filterTasksKeepsAnyStatus(task, filters) ==
    IF "priority" \in DOMAIN filters /\ filters.priority # ""
            /\ task.priority # filters.priority
    THEN FALSE
    ELSE IF "search" \in DOMAIN filters /\ filters.search # <<>>
    THEN \/ includes(toLowerCase(task.title), toLowerCase(filters.search))
         \/ /\ "description" \in DOMAIN task
            /\ includes(toLowerCase(task.description), toLowerCase(filters.search))
    ELSE TRUE

\* filterTasksKeeps that lower-cases the texts but not the search term
filterTasksKeepsRawTerm(task, filters) ==
    IF "status" \in DOMAIN filters /\ filters.status = TaskStatus.COMPLETED /\ ~task.completed
    THEN FALSE
    ELSE IF "status" \in DOMAIN filters /\ filters.status = TaskStatus.PENDING /\ task.completed
    THEN FALSE
    ELSE IF "priority" \in DOMAIN filters /\ filters.priority # ""
            /\ task.priority # filters.priority
    THEN FALSE
    ELSE IF "search" \in DOMAIN filters /\ filters.search # <<>>
    THEN \/ includes(toLowerCase(task.title), filters.search)
         \/ /\ "description" \in DOMAIN task
            /\ includes(toLowerCase(task.description), filters.search)
    ELSE TRUE

\* the predicate of tasks.filter in filterTasks
filterTasksKeeps(task, filters) ==
    LET hasStatus == "status" \in DOMAIN filters
        hasPriority == "priority" \in DOMAIN filters
        hasSearch == "search" \in DOMAIN filters
    IN  IF hasStatus /\ filters.status = TaskStatus.COMPLETED /\ ~task.completed THEN FALSE
        ELSE IF hasStatus /\ filters.status = TaskStatus.PENDING /\ task.completed THEN FALSE
        ELSE IF hasPriority /\ filters.priority # "" /\ task.priority # filters.priority THEN FALSE
        ELSE IF hasSearch /\ filters.search # <<>>
        THEN LET searchTerm == toLowerCase(filters.search)
                 titleMatch == includes(toLowerCase(task.title), searchTerm)
                 descriptionMatch ==
                     IF "description" \in DOMAIN task
                     THEN includes(toLowerCase(task.description), searchTerm)
                     ELSE FALSE
             IN  titleMatch \/ descriptionMatch
        ELSE TRUE

\* filterTasks that returns the kept tasks last to first
filterTasksReversed(allTasks, filters) ==
    LET kept == SelectSeq(allTasks, LAMBDA task : filterTasksKeeps(task, filters))
    IN  [i \in 1..Len(kept) |-> kept[Len(kept) + 1 - i]]

filterTasks(allTasks, filters) ==
    SelectSeq(allTasks, LAMBDA task : filterTasksKeeps(task, filters))

\* Array.prototype.sort with a comparator is a stable sort. compare[i, j] is
\* the comparator's result on the elements at positions i and j of the array;
\* each position is inserted after the last position already placed whose
\* element does not come after its own
InsertSorted(sorted, n, compare) ==
    LET notAfter == {j \in 1..Len(sorted) : compare[sorted[j], n] <= 0}
        k == IF notAfter = {} THEN 0 ELSE Max(notAfter)
    IN  SubSeq(sorted, 1, k) \o <<n>> \o SubSeq(sorted, k + 1, Len(sorted))

SortWith(s, compare) ==
    LET placed[n \in 0..Len(s)] ==
            IF n = 0 THEN <<>> ELSE InsertSorted(placed[n - 1], n, compare)
    IN  [k \in 1..Len(s) |-> s[placed[Len(s)][k]]]

\* priorityOrder of the comparator in GET
priorityOrder(priority) ==
    CASE priority = TaskPriority.HIGH -> 3
      [] priority = TaskPriority.MEDIUM -> 2
      [] priority = TaskPriority.LOW -> 1
\* sortedTasksCompare that puts the second of two tasks first when they tie on
\* completion, priority and createdAt
sortedTasksCompareTiesSwapped(a, b) ==
    IF a.completed # b.completed
    THEN IF a.completed THEN 1 ELSE -1
    ELSE LET priorityDiff == priorityOrder(b.priority) - priorityOrder(a.priority)
         IN  IF priorityDiff # 0 THEN priorityDiff
             ELSE IF b.createdAt # a.createdAt THEN b.createdAt - a.createdAt
             ELSE 1

\* the comparator of filteredTasks.sort in GET
sortedTasksCompare(a, b) ==
    IF a.completed # b.completed
    THEN IF a.completed THEN 1 ELSE -1
    ELSE LET priorityDiff == priorityOrder(b.priority) - priorityOrder(a.priority)
         IN  IF priorityDiff # 0 THEN priorityDiff
             ELSE b.createdAt - a.createdAt

\* generateTaskStats that counts the filtered tasks instead of the store
generateTaskStatsOfFiltered(allTasks, filteredTasks) ==
    LET completed == Cardinality({i \in DOMAIN filteredTasks : filteredTasks[i].completed})
        CountOf(priority) ==
            Cardinality({i \in DOMAIN filteredTasks : filteredTasks[i].priority = priority})
    IN  [total |-> Len(filteredTasks), completed |-> completed,
         pending |-> Len(filteredTasks) - completed,
         byPriority |-> [low |-> CountOf(TaskPriority.LOW),
                         medium |-> CountOf(TaskPriority.MEDIUM),
                         high |-> CountOf(TaskPriority.HIGH)],
         filtered |-> Len(filteredTasks)]

generateTaskStats(allTasks, filteredTasks) ==
    LET completed == Cardinality({i \in DOMAIN allTasks : allTasks[i].completed})
        CountOf(priority) ==
            Cardinality({i \in DOMAIN allTasks : allTasks[i].priority = priority})
        pending == Len(allTasks) - completed
        byPriority ==
            [low |-> CountOf(TaskPriority.LOW),
             medium |-> CountOf(TaskPriority.MEDIUM),
             high |-> CountOf(TaskPriority.HIGH)]
    IN  [total |-> Len(allTasks), completed |-> completed, pending |-> pending,
         byPriority |-> byPriority, filtered |-> Len(filteredTasks)]

\* GET once the query is validated: filter, sort, statistics
GETSuccess(store, params) ==
    LET filteredTasks == filterTasks(store, params)
        sortedTasks ==
            SortWith(filteredTasks,
                     [i \in DOMAIN filteredTasks, j \in DOMAIN filteredTasks |->
                         sortedTasksCompare(filteredTasks[i], filteredTasks[j])])
        \* sort works in place: filteredTasks is sortedTasks from here on
        stats == generateTaskStats(store, sortedTasks)
    IN  [status |-> HTTP_STATUS.OK,
         body |-> [success |-> TRUE,
                   data |-> sortedTasks,
                   meta |-> [total |-> stats.total,
                             page |-> 1,
                             limit |-> Len(sortedTasks),
                             totalPages |-> 1,
                             hasNext |-> FALSE,
                             hasPrev |-> FALSE,
                             stats |-> [total |-> stats.total,
                                        completed |-> stats.completed,
                                        pending |-> stats.pending,
                                        byPriority |-> stats.byPriority]]]]

\* GETResponse that runs the query whatever the validation found
GETResponseLenient(store, searchParams) ==
    GETSuccess(store, validateAndParseQuery(searchParams).params)

\* the response GET builds from the store
GETResponse(store, searchParams) ==
    LET validation == validateAndParseQuery(searchParams)
    IN  IF ~validation.isValid
        THEN [status |-> HTTP_STATUS.BAD_REQUEST,
              body |-> [success |-> FALSE,
                        error |-> [code |-> API_ERROR_CODES.INVALID_QUERY_PARAMS,
                                   message |-> "Invalid query parameters provided",
                                   details |-> [errors |-> validation.errors]]]]
        ELSE GETSuccess(store, validation.params)

(***************************************************************************)
(* POST /api/tasks                                                         *)
(***************************************************************************)
MaxTitleLength == 100

MaxDescriptionLength == 500

MaxCategoryLength == 50

\* createTaskSchema, title: zod runs the checks of a string in the order they
\* were chained (min, max, then trim) and collects every issue
titleIssues(body) ==
    IF "title" \notin DOMAIN body THEN <<[path |-> "title", message |-> "Required"]>>
    ELSE (IF Len(body.title) < 1
          THEN <<[path |-> "title", message |-> "Title is required"]>>
          ELSE <<>>)
         \o
         (IF Len(body.title) > MaxTitleLength
          THEN <<[path |-> "title", message |-> "Title must be 100 characters or less"]>>
          ELSE <<>>)

\* createTaskSchema, description
descriptionIssues(body) ==
    IF "description" \in DOMAIN body /\ Len(body.description) > MaxDescriptionLength
    THEN <<[path |-> "description",
            message |-> "Description must be 500 characters or less"]>>
    ELSE <<>>

\* priorityIssues without the enumeration: any priority given is taken
priorityIssuesAnyValue(body) ==
    IF "priority" \notin DOMAIN body
    THEN <<[path |-> "priority", message |-> "Priority must be low, medium, or high"]>>
    ELSE <<>>

\* createTaskSchema, priority: the errorMap replaces the message of every issue
priorityIssues(body) ==
    IF "priority" \notin DOMAIN body \/ body.priority \notin {"low", "medium", "high"}
    THEN <<[path |-> "priority", message |-> "Priority must be low, medium, or high"]>>
    ELSE <<>>

\* createTaskSchema, category
categoryIssues(body) ==
    IF "category" \in DOMAIN body /\ Len(body.category) > MaxCategoryLength
    THEN <<[path |-> "category", message |-> "Category must be 50 characters or less"]>>
    ELSE <<>>

\* createTaskSchema.safeParse(body): the issues of every field, in the order of
\* the shape, or the parsed data with the title trimmed
createTaskSchema(body) ==
    LET issues ==
            titleIssues(body) \o descriptionIssues(body)
                \o priorityIssues(body) \o categoryIssues(body)
        data ==
            WithField(
                WithField([title |-> trim(body.title), priority |-> body.priority],
                          "description" \in DOMAIN body, "description", body.description),
                "category" \in DOMAIN body, "category", body.category)
    IN  IF Len(issues) = 0
        THEN [success |-> TRUE, data |-> data]
        ELSE [success |-> FALSE, error |-> [errors |-> issues]]

\* newTask that stamps updatedAt one minute after createdAt
newTaskTouched(data, id, now) ==
    WithField(
        WithField([id |-> id, title |-> data.title, completed |-> FALSE,
                   priority |-> data.priority, createdAt |-> now, updatedAt |-> now + 1],
                  "description" \in DOMAIN data /\ data.description # <<>>,
                  "description", data.description),
        "category" \in DOMAIN data /\ data.category # <<>>,
        "category", data.category)

\* the task POST builds from the validated data
newTask(data, id, now) ==
    WithField(
        WithField([id |-> id, title |-> data.title, completed |-> FALSE,
                   priority |-> data.priority, createdAt |-> now, updatedAt |-> now],
                  "description" \in DOMAIN data /\ data.description # <<>>,
                  "description", data.description),
        "category" \in DOMAIN data /\ data.category # <<>>,
        "category", data.category)

\* POSTOutcome that stores a task before it validates the body
POSTOutcomePushFirst(store, req, id, now) ==
    LET placeholder == newTask([title |-> <<>>, priority |-> TaskPriority.MEDIUM], id, now)
        validation == createTaskSchema(req.body)
    IN  IF ~req.json
        THEN [store |-> store,
              response |->
                [status |-> HTTP_STATUS.BAD_REQUEST,
                 body |-> [success |-> FALSE,
                           error |-> [code |-> API_ERROR_CODES.INVALID_REQUEST_BODY,
                                      message |-> "Invalid JSON in request body",
                                      details |-> [reason |-> "Request body must be valid JSON"]]]]]
        ELSE IF ~validation.success
        THEN [store |-> Append(store, placeholder),
              response |->
                [status |-> HTTP_STATUS.BAD_REQUEST,
                 body |-> [success |-> FALSE,
                           error |-> [code |-> API_ERROR_CODES.VALIDATION_ERROR,
                                      message |-> "Validation failed",
                                      details |-> [errors |-> validation.error.errors]]]]]
        ELSE [store |-> Append(store, newTask(validation.data, id, now)),
              response |-> [status |-> HTTP_STATUS.CREATED,
                            body |-> [success |-> TRUE,
                                      data |-> newTask(validation.data, id, now)]]]

\* the outcome of POST for a request: the response and the store after it
POSTOutcome(store, req, id, now) ==
    IF ~req.json
    THEN [store |-> store,
          response |->
            [status |-> HTTP_STATUS.BAD_REQUEST,
             body |-> [success |-> FALSE,
                       error |-> [code |-> API_ERROR_CODES.INVALID_REQUEST_BODY,
                                  message |-> "Invalid JSON in request body",
                                  details |-> [reason |-> "Request body must be valid JSON"]]]]]
    ELSE LET validation == createTaskSchema(req.body)
         IN  IF ~validation.success
             THEN [store |-> store,
                   response |->
                     [status |-> HTTP_STATUS.BAD_REQUEST,
                      body |-> [success |-> FALSE,
                                error |-> [code |-> API_ERROR_CODES.VALIDATION_ERROR,
                                           message |-> "Validation failed",
                                           details |-> [errors |-> validation.error.errors]]]]]
             ELSE LET created == newTask(validation.data, id, now)
                  IN  [store |-> Append(store, created),
                       response |-> [status |-> HTTP_STATUS.CREATED,
                                     body |-> [success |-> TRUE, data |-> created]]]

(***************************************************************************)
(* lib/utils: sortTasks                                                    *)
(***************************************************************************)
Sign(n) == IF n < 0 THEN -1 ELSE IF n > 0 THEN 1 ELSE 0

\* the collation weight of a character: letters in alphabetical order
\* whatever their case, any other character before them
CollationWeight(c) ==
    LET lower == IF c \in DOMAIN LowerCaseOf THEN LowerCaseOf[c] ELSE c
        at == {i \in DOMAIN LowerCaseLetters : LowerCaseLetters[i] = lower}
    IN  IF at = {} THEN 0 ELSE CHOOSE i \in at : TRUE

\* the characters that have a canonical decomposition: the precomposed e with
\* acute accent (U+00E9) is the letter e followed by the combining acute
\* accent (U+0301)
CanonicalDecomposition == [c \in {"U+00E9"} |-> <<"e", "U+0301">>]

\* the text with every precomposed character replaced by its decomposition
normalize(text) ==
    LET done[n \in 0..Len(text)] ==
            IF n = 0 THEN <<>>
            ELSE done[n - 1] \o (IF text[n] \in DOMAIN CanonicalDecomposition
                                 THEN CanonicalDecomposition[text[n]]
                                 ELSE <<text[n]>>)
    IN  done[Len(text)]

\* String.prototype.localeCompare: canonically equivalent texts compare equal
\* (ECMA-262, String.prototype.localeCompare); otherwise by letters first, the
\* shorter text first when one is a prefix of the other; texts that differ
\* only in case are ordered lower case first at the first difference
localeCompare(x, y) ==
    LET a == normalize(x)
        b == normalize(y)
        n == IF Len(a) < Len(b) THEN Len(a) ELSE Len(b)
        primary == {i \in 1..n : CollationWeight(a[i]) # CollationWeight(b[i])}
        cased == {i \in 1..n : a[i] # b[i]}
    IN  IF primary # {}
        THEN Sign(CollationWeight(a[Min(primary)]) - CollationWeight(b[Min(primary)]))
        ELSE IF Len(a) # Len(b) THEN Sign(Len(a) - Len(b))
        ELSE IF cased = {} THEN 0
        ELSE IF a[Min(cased)] \in DOMAIN LowerCaseOf THEN 1 ELSE -1

DEFAULT_PREFERENCES == [sortBy |-> "priority", sortOrder |-> "desc", hideCompleted |-> FALSE]

PRIORITY_ORDER(priority) ==
    CASE priority = TaskPriority.HIGH -> 0
      [] priority = TaskPriority.MEDIUM -> 1
      [] priority = TaskPriority.LOW -> 2
\* sortTasksCompare that compares titles in ascending order whatever the
\* sort order
sortTasksCompareTitleAscending(a, b, sortBy, sortOrder) ==
    LET comparison ==
            CASE sortBy = "priority" ->
                    PRIORITY_ORDER(a.priority) - PRIORITY_ORDER(b.priority)
              [] sortBy = "dueDate" ->
                    IF "dueDate" \notin DOMAIN a /\ "dueDate" \notin DOMAIN b THEN 0
                    ELSE IF "dueDate" \notin DOMAIN a THEN 1
                    ELSE IF "dueDate" \notin DOMAIN b THEN -1
                    ELSE a.dueDate - b.dueDate
              [] sortBy = "createdAt" -> a.createdAt - b.createdAt
              [] sortBy = "title" -> localeCompare(a.title, b.title)
              [] OTHER -> 0
    IN  IF sortOrder = "asc" \/ sortBy = "title" THEN comparison ELSE 0 - comparison

\* the comparator of sortTasks
sortTasksCompare(a, b, sortBy, sortOrder) ==
    LET comparison ==
            CASE sortBy = "priority" ->
                    PRIORITY_ORDER(a.priority) - PRIORITY_ORDER(b.priority)
              [] sortBy = "dueDate" ->
                    IF "dueDate" \notin DOMAIN a /\ "dueDate" \notin DOMAIN b THEN 0
                    ELSE IF "dueDate" \notin DOMAIN a THEN 1
                    ELSE IF "dueDate" \notin DOMAIN b THEN -1
                    ELSE a.dueDate - b.dueDate
              [] sortBy = "createdAt" -> a.createdAt - b.createdAt
              [] sortBy = "title" -> localeCompare(a.title, b.title)
              [] OTHER -> 0
    IN  IF sortOrder = "asc" THEN comparison ELSE 0 - comparison

sortTasks(list, sortBy, sortOrder) ==
    SortWith(list,
             [i \in DOMAIN list, j \in DOMAIN list |->
                 sortTasksCompare(list[i], list[j], sortBy, sortOrder)])

(***************************************************************************)
(* components/TaskList: the list view with preferences (processedTasks)    *)
(* and the stateless list view (filteredTasks, sortedTasks)                *)
(***************************************************************************)
\* the predicate of filtered.filter in processedTasks
processedTasksKeeps(task, currentFilter) ==
    IF currentFilter.status = TaskStatus.COMPLETED /\ ~task.completed THEN FALSE
    ELSE IF currentFilter.status = TaskStatus.PENDING /\ task.completed THEN FALSE
    ELSE IF "priority" \in DOMAIN currentFilter /\ task.priority # currentFilter.priority
    THEN FALSE
    ELSE IF /\ "category" \in DOMAIN currentFilter
            /\ currentFilter.category # <<>>
            /\ ("category" \notin DOMAIN task \/ task.category # currentFilter.category)
    THEN FALSE
    ELSE IF "search" \in DOMAIN currentFilter /\ currentFilter.search # <<>>
    THEN LET searchTerm == toLowerCase(currentFilter.search)
             titleMatch == includes(toLowerCase(task.title), searchTerm)
             descriptionMatch ==
                 IF "description" \in DOMAIN task
                 THEN includes(toLowerCase(task.description), searchTerm)
                 ELSE FALSE
         IN  titleMatch \/ descriptionMatch
    ELSE TRUE

\* props: tasks, localTasks, userPreferences and, when given, currentFilter
processedTasks(props) ==
    LET source == IF Len(props.tasks) > 0 THEN props.tasks ELSE props.localTasks
        filtered ==
            IF "currentFilter" \in DOMAIN props
            THEN SelectSeq(source, LAMBDA task : processedTasksKeeps(task, props.currentFilter))
            ELSE source
        shown ==
            IF props.userPreferences.hideCompleted
            THEN SelectSeq(filtered, LAMBDA task : ~task.completed)
            ELSE filtered
    IN  sortTasks(shown, props.userPreferences.sortBy, props.userPreferences.sortOrder)

\* the predicate of tasks.filter in filteredTasks
filteredTasksKeeps(task, filter) ==
    IF filter.status = TaskStatus.COMPLETED /\ ~task.completed THEN FALSE
    ELSE IF filter.status = TaskStatus.PENDING /\ task.completed THEN FALSE
    ELSE IF "priority" \in DOMAIN filter /\ task.priority # filter.priority THEN FALSE
    ELSE IF /\ "category" \in DOMAIN filter
            /\ filter.category # <<>>
            /\ ("category" \notin DOMAIN task \/ task.category # filter.category)
    THEN FALSE
    ELSE TRUE

filteredTasks(list, filter) ==
    SelectSeq(list, LAMBDA task : filteredTasksKeeps(task, filter))

\* priorityOrder of the comparator in sortedTasks
listPriorityOrder(priority) ==
    CASE priority = "high" -> 3
      [] priority = "medium" -> 2
      [] priority = "low" -> 1

\* the comparator of [...filteredTasks].sort in sortedTasks
listSortedTasksCompare(a, b) ==
    IF a.completed # b.completed
    THEN IF a.completed THEN 1 ELSE -1
    ELSE LET priorityDiff == listPriorityOrder(b.priority) - listPriorityOrder(a.priority)
         IN  IF priorityDiff # 0 THEN priorityDiff
             ELSE b.createdAt - a.createdAt

sortedTasks(list, filter) ==
    LET filtered == filteredTasks(list, filter)
    IN  SortWith(filtered,
                 [i \in DOMAIN filtered, j \in DOMAIN filtered |->
                     listSortedTasksCompare(filtered[i], filtered[j])])

(***************************************************************************)
(* The demo page (app/demo/page.tsx) and the form that creates its tasks   *)
(***************************************************************************)
\* the task the form builds in onSubmit; an empty dueDate input is a missing
\* field, a filled one is the instant it denotes
onSubmit(data, id, now) ==
    WithField(
        WithField(
            WithField([id |-> id, title |-> trim(data.title), completed |-> FALSE,
                       priority |-> data.priority, createdAt |-> now, updatedAt |-> now],
                      trim(data.description) # <<>>, "description", trim(data.description)),
            trim(data.category) # <<>>, "category", trim(data.category)),
        "dueDate" \in DOMAIN data, "dueDate", IF "dueDate" \in DOMAIN data THEN data.dueDate ELSE 0)

\* updatedTasks of handleTaskCreated
handleTaskCreated(pageTasks, created) == <<created>> \o pageTasks

\* handleToggleComplete that also restamps createdAt
handleToggleCompleteRestamped(pageTasks, taskId, now) ==
    [i \in DOMAIN pageTasks |->
        IF pageTasks[i].id = taskId
        THEN [pageTasks[i] EXCEPT !.completed = ~@, !.updatedAt = now, !.createdAt = now + 1]
        ELSE pageTasks[i]]

\* updatedTasks of handleToggleComplete
handleToggleComplete(pageTasks, taskId, now) ==
    [i \in DOMAIN pageTasks |->
        IF pageTasks[i].id = taskId
        THEN [pageTasks[i] EXCEPT !.completed = ~@, !.updatedAt = now]
        ELSE pageTasks[i]]

\* updatedTasks of handleDeleteTask
handleDeleteTask(pageTasks, taskId) ==
    SelectSeq(pageTasks, LAMBDA task : task.id # taskId)

(***************************************************************************)
(* Inputs of the list views                                                *)
(***************************************************************************)
MaxViewTasks == 3

\* tasks as the forms and the demo pages build them
ViewTasks ==
    {[id |-> "t1", title |-> <<"A", "l", "p", "h", "a">>,
      description |-> <<"F", "i", "x", " ", "l", "o", "g", "i", "n">>,
      completed |-> FALSE, priority |-> TaskPriority.HIGH,
      createdAt |-> At(8, 10, 0), updatedAt |-> At(8, 10, 0),
      category |-> <<"W", "o", "r", "k">>, dueDate |-> At(15, 23, 59)],
     [id |-> "t2", title |-> <<"b", "e", "t", "a">>,
      completed |-> TRUE, priority |-> TaskPriority.LOW,
      createdAt |-> At(9, 11, 0), updatedAt |-> At(9, 16, 0),
      category |-> <<"w", "o", "r", "k">>],
     [id |-> "t3", title |-> <<"G", "a", "m", "m", "a">>,
      description |-> <<"A", "l", "p", "h", "a", " ", "n", "o", "t", "e", "s">>,
      completed |-> FALSE, priority |-> TaskPriority.MEDIUM,
      createdAt |-> At(8, 10, 0), updatedAt |-> At(8, 10, 0),
      dueDate |-> At(12, 12, 0)],
     [id |-> "t4", title |-> <<"d", "e", "l", "t", "a">>,
      completed |-> FALSE, priority |-> TaskPriority.HIGH,
      createdAt |-> At(10, 8, 0), updatedAt |-> At(10, 8, 0),
      category |-> <<"W", "o", "r", "k">>],
     [id |-> "t5", title |-> <<"a", "l", "p", "h", "a">>,
      completed |-> TRUE, priority |-> TaskPriority.MEDIUM,
      createdAt |-> At(7, 14, 0), updatedAt |-> At(9, 9, 0),
      dueDate |-> At(15, 23, 59)]}

\* two tasks whose titles are different strings and the same text: "Café"
\* with the precomposed character and with the combining accent
AccentedTasks ==
    {[id |-> "t6", title |-> <<"C", "a", "f", "U+00E9">>,
      completed |-> FALSE, priority |-> TaskPriority.LOW,
      createdAt |-> At(6, 9, 0), updatedAt |-> At(6, 9, 0)],
     [id |-> "t7", title |-> <<"C", "a", "f", "e", "U+0301">>,
      completed |-> FALSE, priority |-> TaskPriority.MEDIUM,
      createdAt |-> At(6, 10, 0), updatedAt |-> At(6, 10, 0)]}

\* the lists sortTasks is called with
SortLists ==
    UNION {{list \in [1..n -> ViewTasks \cup AccentedTasks] :
               \A i, j \in 1..n : i # j => list[i] # list[j]} :
           n \in 0..MaxViewTasks}

\* the lists of at most MaxViewTasks different tasks, in every order
ViewLists ==
    UNION {{list \in [1..n -> ViewTasks] : \A i, j \in 1..n : i # j => list[i] # list[j]} :
           n \in 0..MaxViewTasks}

SortByInputs == {"priority", "dueDate", "createdAt", "title"}

SortOrderInputs == {"asc", "desc"}

UserPreferencesInputs ==
    {DEFAULT_PREFERENCES,
     [sortBy |-> "priority", sortOrder |-> "desc", hideCompleted |-> TRUE],
     [sortBy |-> "dueDate", sortOrder |-> "asc", hideCompleted |-> FALSE]}

ViewFilters ==
    {WithField(WithField(WithField([status |-> s],
        p[1], "priority", p[2]), c[1], "category", c[2]), q[1], "search", q[2]) :
        s \in Range(TaskStatusValues),
        p \in OptionalWord({TaskPriority.HIGH}),
        c \in OptionalText({<<"W", "o", "r", "k">>}),
        q \in OptionalText({<<"A", "L">>})}

\* the filters of the stateless list view: status, priority and category
ListFilters == {filter \in ViewFilters : "search" \notin DOMAIN filter}

LocalTasksInputs == {<<>>, <<CHOOSE task \in ViewTasks : task.id = "t2">>}

ViewInputs ==
    {[component |-> "sortTasks", tasks |-> list, sortBy |-> sortBy, sortOrder |-> sortOrder] :
        list \in SortLists, sortBy \in SortByInputs, sortOrder \in SortOrderInputs}
    \cup
    {[component |-> "TaskList", tasks |-> list, localTasks |-> localTasks,
      currentFilter |-> filter, userPreferences |-> preferences] :
        list \in ViewLists, localTasks \in LocalTasksInputs,
        filter \in ViewFilters, preferences \in UserPreferencesInputs}
    \cup
    {[component |-> "TaskList", tasks |-> list, localTasks |-> localTasks,
      userPreferences |-> DEFAULT_PREFERENCES] :
        list \in ViewLists, localTasks \in LocalTasksInputs}
    \cup
    {[component |-> "StatelessTaskList", tasks |-> list, filter |-> filter] :
        list \in ViewLists, filter \in ListFilters}

NoView == [component |-> "NONE"]

NotRendered == [rendered |-> FALSE]

(***************************************************************************)
(* Requests                                                                *)
(***************************************************************************)
MaxTasks == 10

MaxTicks == 1

\* the wall clock when the server starts: after every seeded createdAt
Now0 == At(11, 0, 0)

\* generateId: sixteen random choices per character; two draws may coincide
generateId == {"id-a", "id-b"}

StatusInputs == OptionalWord({"", "all", "completed", "pending", "done"})

PriorityInputs == OptionalWord({"", "high", "urgent"})

SearchInputs ==
    OptionalText({<<>>,
                  <<"A", "U", "T", "H">>,
                  <<"G", "I", "T", "H", "U", "B">>,
                  <<"S", "t", "a", "n", "d", "u", "p">>,
                  Repeat("a", MaxSearchLength + 1)})

CategoryInputs == OptionalText({<<"D", "e", "v", "e", "l", "o", "p", "m", "e", "n", "t">>})

QueryInputs ==
    {WithField(WithField(WithField(WithField(EmptyObject,
        s[1], "status", s[2]), p[1], "priority", p[2]), q[1], "search", q[2]),
        c[1], "category", c[2]) :
        s \in StatusInputs, p \in PriorityInputs, q \in SearchInputs, c \in CategoryInputs}

TitleInputs ==
    OptionalText({<<>>, <<" ", " ">>, <<"B", "u", "y", " ", "m", "i", "l", "k">>,
                  Repeat("x", MaxTitleLength + 1)})

DescriptionInputs == OptionalText({<<>>, Repeat("x", MaxDescriptionLength + 1)})

CreatePriorityInputs == OptionalWord({"medium", "URGENT"})

CreateCategoryInputs == OptionalText({<<>>, Repeat("x", MaxCategoryLength + 1)})

CreateBodies ==
    {WithField(WithField(WithField(WithField(EmptyObject,
        t[1], "title", t[2]), d[1], "description", d[2]), p[1], "priority", p[2]),
        c[1], "category", c[2]) :
        t \in TitleInputs, d \in DescriptionInputs,
        p \in CreatePriorityInputs, c \in CreateCategoryInputs}

\* a body that is not JSON, or a JSON object
CreateRequests ==
    {[json |-> FALSE, body |-> EmptyObject]} \cup {[json |-> TRUE, body |-> b] : b \in CreateBodies}

\* inputs of the demo page: the tasks it loads from storage when it mounts,
\* the data its form submits, the ids its handlers are called with
MaxStoredTasks == 2

MaxPageTasks == 3

StoredTasks == {task \in ViewTasks : task.id \in {"t1", "t2"}}

StoredLists ==
    UNION {{list \in [1..n -> StoredTasks] : \A i, j \in 1..n : i # j => list[i] # list[j]} :
           n \in 1..MaxStoredTasks}

FormInputs ==
    {[title |-> <<" ", "B", "u", "y", " ", "m", "i", "l", "k", " ">>,
      description |-> <<>>, priority |-> TaskPriority.MEDIUM, category |-> <<>>],
     [title |-> <<"P", "a", "y", " ", "r", "e", "n", "t">>,
      description |-> <<" ">>, priority |-> TaskPriority.HIGH,
      category |-> <<"H", "o", "m", "e">>, dueDate |-> At(20, 0, 0)]}

\* the page once mounted with the tasks found in storage
PageInputs ==
    {[component |-> "DemoPage", tasks |-> list, storage |-> list] : list \in StoredLists}

PageTaskIds == {"t1", "t2", "missing"} \cup generateId

\* two creation requests sent at the same time
ConcurrentRequests ==
    [first |-> [json |-> TRUE,
                body |-> [title |-> <<"P", "a", "y", " ", "r", "e", "n", "t">>,
                          priority |-> "high"]],
     second |-> [json |-> TRUE,
                 body |-> [title |-> <<"W", "a", "l", "k", " ", "d", "o", "g">>,
                           priority |-> "low"]]]

\* the handlers suspended at await request.json()
Parsing == {r \in DOMAIN inflight : inflight[r] = "parsing"}

(***************************************************************************)
(* components/ui/ConfirmationDialog: the dialog and useConfirmationDialog  *)
(***************************************************************************)
\* the hook's dialog state when no dialog is shown (null)
NoDialog == [isOpen |-> FALSE]

\* the hook after its first render; promises are the promises confirm has
\* returned so far, each "pending" or settled with "true" or "false"
HookInit == [dialog |-> NoDialog, loading |-> FALSE, promises |-> <<>>]

\* showDialog with the onConfirm and onCancel that confirm builds: they
\* settle the promise with the given number
showDialog(hook, promise) ==
    [hook EXCEPT !.dialog = [isOpen |-> TRUE, promise |-> promise]]

hideDialog(hook) == [hook EXCEPT !.dialog = NoDialog, !.loading = FALSE]

\* the resolve function of a promise: it settles a pending promise and does
\* nothing to a settled one
resolve(promises, promise, value) ==
    IF promises[promise] = "pending"
    THEN [promises EXCEPT ![promise] = value]
    ELSE promises

\* confirm: a new promise, and the dialog that settles it
confirm(hook) ==
    showDialog([hook EXCEPT !.promises = Append(@, "pending")], Len(hook.promises) + 1)

\* onConfirm of the dialog built by confirm: setLoading(true), resolve(true),
\* hideDialog()
onConfirm(hook) ==
    hideDialog([hook EXCEPT !.loading = TRUE,
                            !.promises = resolve(@, hook.dialog.promise, "true")])

\* onCancel of the dialog built by confirm: resolve(false), hideDialog()
onCancel(hook) ==
    hideDialog([hook EXCEPT !.promises = resolve(@, hook.dialog.promise, "false")])

\* the callback handleKeyDown calls for a key, given the focused element
handleKeyDown(key, activeElement) ==
    CASE key = "Escape" -> "onCancel"
      [] key = "Enter" -> IF activeElement = "cancelButton" THEN "onCancel" ELSE "onConfirm"
      [] OTHER -> "none"

\* the callback a click calls: the backdrop and the cancel button call
\* onCancel, the confirm button calls onConfirm
onClick(target) ==
    CASE target = "confirmButton" -> "onConfirm"
      [] target = "cancelButton" -> "onCancel"
      [] target = "backdrop" -> "onCancel"

\* what the user can do to an open dialog
DialogEvents ==
    {[type |-> "click", target |-> target] :
        target \in {"confirmButton", "cancelButton", "backdrop"}}
    \cup
    {[type |-> "keydown", key |-> key, activeElement |-> element] :
        key \in {"Escape", "Enter", "Tab"},
        element \in {"cancelButton", "confirmButton", "body"}}

\* the callback of the dialog the event calls
dialogCallback(event) ==
    IF event.type = "click" THEN onClick(event.target)
    ELSE handleKeyDown(event.key, event.activeElement)

\* the hook after the event on its open dialog
dialogAnswered(hook, event) ==
    CASE dialogCallback(event) = "onConfirm" -> onConfirm(hook)
      [] dialogCallback(event) = "onCancel" -> onCancel(hook)
      [] OTHER -> hook

MaxConfirms == 3

\* a component that uses the hook and calls confirm at any time
HookInputs == {[component |-> "useConfirmationDialog", hook |-> HookInit]}

(***************************************************************************)
(* The demo page with its list view (components/TaskList): the delayed     *)
(* handlers handleTaskToggle and handleTaskDelete                          *)
(***************************************************************************)
\* no call of the handler is under way
IdleCall == [state |-> "idle", taskId |-> "", closure |-> <<>>, promise |-> 0,
             answer |-> "none"]

\* the effect that saves the tasks and copies them to localTasks when the
\* tasks prop changes and is not empty
saveEffect(page) ==
    IF Len(page.tasks) > 0
    THEN [page EXCEPT !.storage = page.tasks, !.localTasks = page.tasks]
    ELSE page

\* the props the demo page gives its list view
listProps(page) ==
    [tasks |-> page.tasks, localTasks |-> page.localTasks,
     currentFilter |-> [status |-> TaskStatus.ALL],
     userPreferences |-> DEFAULT_PREFERENCES]

\* the ids of the cards the list view displays
displayed(page) ==
    {processedTasks(listProps(page))[i].id : i \in DOMAIN processedTasks(listProps(page))}

\* handleTaskDelete once the promise of confirm is settled: it returns when
\* the answer is false and starts the simulated delay when it is true
handleTaskDeleteConfirmed(confirmed) ==
    IF confirmed = "true" THEN "waiting" ELSE "cancelled"

MaxClicks == 2

\* the demo page and its list view once mounted with the tasks found in
\* storage, which all their mount effects have copied
ListPageInputs ==
    {[component |-> "TaskListPage", tasks |-> list, storage |-> list,
      localTasks |-> list, hook |-> HookInit, deletion |-> IdleCall,
      toggle |-> IdleCall, clicks |-> 0] : list \in StoredLists}

(***************************************************************************)
(* The toast provider (ToastProvider, appended to ConfirmationDialog.tsx)  *)
(***************************************************************************)
DefaultMaxToasts == 5

DefaultDuration == 5000

\* removeToast without effect
removeToastKeepsAll(toasts, id) == toasts

\* the update function of removeToast
removeToast(toasts, id) == SelectSeq(toasts, LAMBDA toast : toast.id # id)

\* addToast that adds the new toast last and never cuts the list
addToastAppends(provider, toast, id) ==
    LET duration == IF "duration" \in DOMAIN toast THEN toast.duration ELSE DefaultDuration
        newToast == [id |-> id, duration |-> duration, n |-> provider.added + 1]
    IN  [provider EXCEPT
            !.toasts = Append(@, newToast),
            !.timers = IF duration > 0 THEN @ \cup {[n |-> newToast.n, id |-> id]} ELSE @,
            !.added = @ + 1]

\* addToast with the id that Math.random gave. The field n of a toast numbers
\* the calls of addToast; the code has no such field. timers are the pending
\* setTimeout callbacks, each with the id it will remove, and fired are the
\* numbers of the toasts whose callbacks have run
addToast(provider, toast, id) ==
    LET duration == IF "duration" \in DOMAIN toast THEN toast.duration ELSE DefaultDuration
        newToast == [id |-> id, duration |-> duration, n |-> provider.added + 1]
        updated == <<newToast>> \o provider.toasts
    IN  [provider EXCEPT
            !.toasts = SubSeq(updated, 1, Min({Len(updated), provider.maxToasts})),
            !.timers = IF duration > 0 THEN @ \cup {[n |-> newToast.n, id |-> id]} ELSE @,
            !.added = @ + 1]

clearToasts == <<>>

MaxToastAdds == 4

\* the ids Math.random may give a toast: they are random and may repeat
ToastIds == {"k3x9q1a", "p0z8m2b"}

\* the ids removeToast may be called with: the id of a toast of the list, an
\* id whose timer is pending, or an id that no toast ever had
RemovableIds(provider) ==
    {provider.toasts[i].id : i \in DOMAIN provider.toasts}
        \cup {timer.id : timer \in provider.timers} \cup {"absent"}

\* the toasts given to addToast: without a duration, persistent, and with a
\* duration of their own
ToastInputs == {EmptyObject, [duration |-> 0], [duration |-> 3000]}

\* the provider after its first render, with the default maxToasts and with
\* a maxToasts prop
ProviderInputs ==
    {[component |-> "ToastProvider", maxToasts |-> maxToasts, toasts |-> <<>>,
      timers |-> {}, fired |-> {}, added |-> 0] : maxToasts \in {DefaultMaxToasts, 2}}

(***************************************************************************)
(* The server                                                              *)
(***************************************************************************)
NoRequest == [method |-> "NONE"]

NoResponse == [status |-> 0]

\* the server after the module is loaded
ServerInit ==
    /\ tasks = SeedTasks
    /\ clock = Now0
    /\ request = NoRequest
    /\ response = NoResponse
    /\ inflight = [r \in DOMAIN ConcurrentRequests |-> "none"]

\* a behaviour follows the server, or one call of a list view with its inputs,
\* or the demo page from the tasks it found in storage
Init ==
    /\ ServerInit
    /\ view \in {NoView} \cup ViewInputs \cup PageInputs \cup ListPageInputs \cup HookInputs
    /\ output = NotRendered
\* GET that sorts the store itself when the query is valid
GETSortsStore ==
    /\ view = NoView
    /\ request = NoRequest
    /\ \E searchParams \in QueryInputs :
        /\ request' = [method |-> "GET", searchParams |-> searchParams]
        /\ response' = GETResponse(tasks, searchParams)
        /\ tasks' = IF validateAndParseQuery(searchParams).isValid
                    THEN SortWith(tasks, [i \in DOMAIN tasks, j \in DOMAIN tasks |->
                                             sortedTasksCompare(tasks[i], tasks[j])])
                    ELSE tasks
        /\ UNCHANGED <<clock, view, output, inflight>>

GET ==
    /\ view = NoView
    /\ request = NoRequest
    /\ \E searchParams \in QueryInputs :
        /\ request' = [method |-> "GET", searchParams |-> searchParams]
        /\ response' = GETResponse(tasks, searchParams)
        /\ UNCHANGED <<tasks, clock, view, output, inflight>>

POST ==
    /\ view = NoView
    /\ request = NoRequest
    /\ Len(tasks) + Cardinality(Parsing) < MaxTasks
    /\ \E req \in CreateRequests, id \in generateId, now \in clock..(Now0 + MaxTicks) :
        LET outcome == POSTOutcome(tasks, req, id, now)
        IN  /\ request' = [method |-> "POST", json |-> req.json, body |-> req.body]
            /\ response' = outcome.response
            /\ tasks' = outcome.store
            /\ clock' = now
            /\ UNCHANGED <<view, output, inflight>>

\* POST for one of the concurrent requests, up to await request.json(): the
\* handler is suspended and the event loop is free for other handlers
POSTAwait ==
    /\ view = NoView
    /\ request = NoRequest
    /\ Len(tasks) + Cardinality(Parsing) < MaxTasks
    /\ \E r \in DOMAIN inflight :
        /\ inflight[r] = "none"
        /\ inflight' = [inflight EXCEPT ![r] = "parsing"]
    /\ UNCHANGED <<tasks, clock, request, response, view, output>>

\* POSTResume that writes back the store it saw when the module was loaded
POSTResumeStale ==
    /\ view = NoView
    /\ request = NoRequest
    /\ \E r \in Parsing, id \in generateId, now \in clock..(Now0 + MaxTicks) :
        LET req == ConcurrentRequests[r]
            outcome == POSTOutcome(SeedTasks, req, id, now)
        IN  /\ request' = [method |-> "POST", json |-> req.json, body |-> req.body]
            /\ response' = outcome.response
            /\ tasks' = outcome.store
            /\ clock' = now
            /\ inflight' = [inflight EXCEPT ![r] = "done"]
            /\ UNCHANGED <<view, output>>

\* POST from the resolution of await request.json() to its response, in one
\* turn of the event loop
POSTResume ==
    /\ view = NoView
    /\ request = NoRequest
    /\ \E r \in Parsing, id \in generateId, now \in clock..(Now0 + MaxTicks) :
        LET req == ConcurrentRequests[r]
            outcome == POSTOutcome(tasks, req, id, now)
        IN  /\ request' = [method |-> "POST", json |-> req.json, body |-> req.body]
            /\ response' = outcome.response
            /\ tasks' = outcome.store
            /\ clock' = now
            /\ inflight' = [inflight EXCEPT ![r] = "done"]
            /\ UNCHANGED <<view, output>>

\* the handler has returned its response; the server waits for the next request
Respond ==
    /\ request # NoRequest
    /\ request' = NoRequest
    /\ response' = NoResponse
    /\ UNCHANGED <<tasks, clock, view, output, inflight>>

\* sortTasks(tasks, sortBy, sortOrder) is called
CallSortTasks ==
    /\ view.component = "sortTasks"
    /\ output = NotRendered
    /\ output' = [rendered |-> TRUE, tasks |-> sortTasks(view.tasks, view.sortBy, view.sortOrder)]
    /\ UNCHANGED <<tasks, clock, request, response, view, inflight>>

\* the list view with preferences renders processedTasks
RenderTaskList ==
    /\ view.component = "TaskList"
    /\ output = NotRendered
    /\ output' = [rendered |-> TRUE, tasks |-> processedTasks(view)]
    /\ UNCHANGED <<tasks, clock, request, response, view, inflight>>

\* the stateless list view renders sortedTasks
RenderStatelessTaskList ==
    /\ view.component = "StatelessTaskList"
    /\ output = NotRendered
    /\ output' = [rendered |-> TRUE, tasks |-> sortedTasks(view.tasks, view.filter)]
    /\ UNCHANGED <<tasks, clock, request, response, view, inflight>>

\* the form of the demo page is submitted and the page adds the task
TaskCreated ==
    /\ view.component = "DemoPage"
    /\ Len(view.tasks) < MaxPageTasks
    /\ \E data \in FormInputs, id \in generateId, now \in clock..(Now0 + MaxTicks) :
        LET updatedTasks == handleTaskCreated(view.tasks, onSubmit(data, id, now))
        IN  /\ view' = [view EXCEPT !.tasks = updatedTasks, !.storage = updatedTasks]
            /\ clock' = now
            /\ UNCHANGED <<tasks, request, response, output, inflight>>

\* the completion of a task of the demo page is toggled
ToggleComplete ==
    /\ view.component = "DemoPage"
    /\ \E taskId \in PageTaskIds, now \in clock..(Now0 + MaxTicks) :
        LET updatedTasks == handleToggleComplete(view.tasks, taskId, now)
        IN  /\ view' = [view EXCEPT !.tasks = updatedTasks, !.storage = updatedTasks]
            /\ clock' = now
            /\ UNCHANGED <<tasks, request, response, output, inflight>>

\* a task of the demo page is deleted
DeleteTask ==
    /\ view.component = "DemoPage"
    /\ \E taskId \in PageTaskIds :
        LET updatedTasks == handleDeleteTask(view.tasks, taskId)
        IN  /\ view' = [view EXCEPT !.tasks = updatedTasks, !.storage = updatedTasks]
            /\ UNCHANGED <<tasks, clock, request, response, output, inflight>>
\* the delete button of a displayed card is clicked: handleTaskDelete up to
\* await confirm(...)
TaskDeleteAwait ==
    /\ view.component = "TaskListPage"
    /\ ~view.hook.dialog.isOpen
    /\ view.clicks < MaxClicks
    /\ view.deletion.state \in {"idle", "done", "cancelled"}
    /\ \E taskId \in displayed(view) :
        IF \E i \in DOMAIN view.tasks : view.tasks[i].id = taskId
        THEN view' = [view EXCEPT
                         !.hook = confirm(@),
                         !.deletion = [state |-> "confirming", taskId |-> taskId,
                                       closure |-> view.tasks,
                                       promise |-> Len(view.hook.promises) + 1,
                                       answer |-> "none"],
                         !.clicks = @ + 1]
        ELSE view' = [view EXCEPT !.clicks = @ + 1]
    /\ UNCHANGED <<tasks, clock, request, response, output, inflight>>

\* the user acts on the open dialog; when that settles the promise,
\* handleTaskDelete goes on to its simulated delay or returns
TaskDeleteResume ==
    /\ view.component = "TaskListPage"
    /\ view.hook.dialog.isOpen
    /\ \E event \in DialogEvents :
        LET hook == dialogAnswered(view.hook, event)
            settled == /\ view.deletion.state = "confirming"
                       /\ hook.promises[view.deletion.promise] # "pending"
        IN  view' = [view EXCEPT
                        !.hook = hook,
                        !.deletion =
                            IF settled
                            THEN [@ EXCEPT
                                     !.state = handleTaskDeleteConfirmed(
                                                   hook.promises[view.deletion.promise]),
                                     !.answer = event]
                            ELSE @]
    /\ UNCHANGED <<tasks, clock, request, response, output, inflight>>

\* the simulated delay of handleTaskDelete is over: onDeleteTask(taskId) with
\* the page handler of the render in which the button was clicked, then the
\* render with the new tasks and its save effect
TaskDeleteTimeout ==
    /\ view.component = "TaskListPage"
    /\ view.deletion.state = "waiting"
    /\ LET updatedTasks == handleDeleteTask(view.deletion.closure, view.deletion.taskId)
       IN  view' = saveEffect([view EXCEPT !.tasks = updatedTasks,
                                           !.storage = updatedTasks,
                                           !.deletion.state = "done"])
    /\ UNCHANGED <<tasks, clock, request, response, output, inflight>>

\* the checkbox of a displayed card is clicked: handleTaskToggle up to the
\* await of its simulated delay
TaskToggleAwait ==
    /\ view.component = "TaskListPage"
    /\ ~view.hook.dialog.isOpen
    /\ view.clicks < MaxClicks
    /\ view.toggle.state \in {"idle", "done"}
    /\ \E taskId \in displayed(view) :
        view' = [view EXCEPT
                    !.toggle = [IdleCall EXCEPT !.state = "waiting", !.taskId = taskId,
                                                !.closure = view.tasks],
                    !.clicks = @ + 1]
    /\ UNCHANGED <<tasks, clock, request, response, output, inflight>>

\* the simulated delay of handleTaskToggle is over: onToggleComplete(taskId)
\* with the page handler of the render in which the checkbox was clicked,
\* then the render with the new tasks and its save effect
TaskToggleTimeout ==
    /\ view.component = "TaskListPage"
    /\ view.toggle.state = "waiting"
    /\ \E now \in clock..(Now0 + MaxTicks) :
        LET updatedTasks == handleToggleComplete(view.toggle.closure, view.toggle.taskId, now)
        IN  /\ view' = saveEffect([view EXCEPT !.tasks = updatedTasks,
                                               !.storage = updatedTasks,
                                               !.toggle.state = "done"])
            /\ clock' = now
    /\ UNCHANGED <<tasks, request, response, output, inflight>>

\* the form of the demo page is submitted while the list view is on screen:
\* the page adds the task, renders, and the save effect of the list runs
ListTaskCreated ==
    /\ view.component = "TaskListPage"
    /\ ~view.hook.dialog.isOpen
    /\ view.clicks < MaxClicks
    /\ Len(view.tasks) < MaxPageTasks
    /\ \E data \in FormInputs, id \in generateId, now \in clock..(Now0 + MaxTicks) :
        LET updatedTasks == handleTaskCreated(view.tasks, onSubmit(data, id, now))
        IN  /\ view' = saveEffect([view EXCEPT !.tasks = updatedTasks,
                                               !.storage = updatedTasks,
                                               !.clicks = @ + 1])
            /\ clock' = now
    /\ UNCHANGED <<tasks, request, response, output, inflight>>

\* a component calls confirm of useConfirmationDialog
CallConfirm ==
    /\ view.component = "useConfirmationDialog"
    /\ Len(view.hook.promises) < MaxConfirms
    /\ view' = [view EXCEPT !.hook = confirm(@)]
    /\ UNCHANGED <<tasks, clock, request, response, output, inflight>>

\* the user acts on the open dialog of the hook
DialogEvent ==
    /\ view.component = "useConfirmationDialog"
    /\ view.hook.dialog.isOpen
    /\ \E event \in DialogEvents :
        view' = [view EXCEPT !.hook = dialogAnswered(@, event)]
    /\ UNCHANGED <<tasks, clock, request, response, output, inflight>>

Next ==
    \/ GET
    \/ POST
    \/ POSTAwait
    \/ POSTResume
    \/ Respond
    \/ CallSortTasks
    \/ RenderTaskList
    \/ RenderStatelessTaskList
    \/ TaskCreated
    \/ ToggleComplete
    \/ DeleteTask
    \/ TaskDeleteAwait
    \/ TaskDeleteResume
    \/ TaskDeleteTimeout
    \/ TaskToggleAwait
    \/ TaskToggleTimeout
    \/ ListTaskCreated
    \/ CallConfirm
    \/ DialogEvent

Spec == Init /\ [][Next]_vars

\* a specification of the toast provider alone starts from its first render
ToastInit ==
    /\ ServerInit
    /\ view \in ProviderInputs
    /\ output = NotRendered

\* a consumer calls addToast
AddToast ==
    /\ view.component = "ToastProvider"
    /\ view.added < MaxToastAdds
    /\ \E toast \in ToastInputs, id \in ToastIds :
        view' = addToast(view, toast, id)
    /\ UNCHANGED <<tasks, clock, request, response, output, inflight>>

\* removeToast is called with an id: by a consumer, or by a toast's close
\* button after its exit animation
RemoveToast ==
    /\ view.component = "ToastProvider"
    /\ \E id \in RemovableIds(view) :
        view' = [view EXCEPT !.toasts = removeToast(@, id)]
    /\ UNCHANGED <<tasks, clock, request, response, output, inflight>>

\* a consumer calls clearToasts
ClearToasts ==
    /\ view.component = "ToastProvider"
    /\ view' = [view EXCEPT !.toasts = clearToasts]
    /\ UNCHANGED <<tasks, clock, request, response, output, inflight>>

\* the auto-removal timer of the n-th toast fires
TimerFires(n) ==
    /\ view.component = "ToastProvider"
    /\ \E timer \in view.timers :
        /\ timer.n = n
        /\ view' = [view EXCEPT !.toasts = removeToast(@, timer.id),
                                !.timers = @ \ {timer},
                                !.fired = @ \cup {n}]
    /\ UNCHANGED <<tasks, clock, request, response, output, inflight>>

ToastNext ==
    \/ AddToast
    \/ RemoveToast
    \/ ClearToasts
    \/ \E n \in 1..MaxToastAdds : TimerFires(n)

\* the toast provider; a timer that was set fires after its duration
ToastSpec ==
    /\ ToastInit
    /\ [][ToastNext]_vars
    /\ \A n \in 1..MaxToastAdds : WF_vars(TimerFires(n))

(***************************************************************************)
(* Properties                                                              *)
(***************************************************************************)
\* a text that is empty once trimmed
Blank(text) == \A i \in DOMAIN text : text[i] \in WhiteSpace

\* a creation request is being answered
Creating == request.method = "POST"

\* a query is being answered
Querying == request.method = "GET"

\* C1: a creation request whose title is empty or only whitespace is rejected
\* with a validation error, and no task of the store has a title that is empty
\* after trimming.
C1_BlankTitleRejected ==
    /\ (Creating /\ request.json /\ "title" \in DOMAIN request.body
            /\ Blank(request.body.title))
        => /\ response.status = HTTP_STATUS.BAD_REQUEST
           /\ response.body.error.code = API_ERROR_CODES.VALIDATION_ERROR
    /\ \A i \in DOMAIN tasks : ~Blank(tasks[i].title)

\* the rank the specification gives a priority: HIGH above MEDIUM above LOW
Rank(priority) ==
    CASE priority = "high" -> 3
      [] priority = "medium" -> 2
      [] priority = "low" -> 1

\* sortTasks was called by priority, or the list view rendered with the
\* default preference (priority, descending)
SortedByPriority ==
    /\ output.rendered
    /\ \/ view.component = "sortTasks" /\ view.sortBy = "priority"
       \/ view.component = "TaskList" /\ view.userPreferences.sortBy = "priority"

SortOrderOfView ==
    IF view.component = "sortTasks" THEN view.sortOrder ELSE view.userPreferences.sortOrder

\* C2: sorted by priority, descending puts HIGH before MEDIUM before LOW and
\* ascending puts LOW before MEDIUM before HIGH.
C2_PriorityOrder ==
    SortedByPriority =>
        \A i, j \in DOMAIN output.tasks :
            i < j =>
                IF SortOrderOfView = "desc"
                THEN Rank(output.tasks[i].priority) >= Rank(output.tasks[j].priority)
                ELSE Rank(output.tasks[i].priority) <= Rank(output.tasks[j].priority)

\* C3: sorted by dueDate, in both directions every task without a due date
\* comes after every task with one, and the tasks with due dates are ordered
\* by instant according to the direction.
C3_DueDateOrder ==
    (output.rendered /\ view.component = "sortTasks" /\ view.sortBy = "dueDate") =>
        \A i, j \in DOMAIN output.tasks :
            i < j =>
                LET first == output.tasks[i]
                    second == output.tasks[j]
                IN  /\ ~("dueDate" \notin DOMAIN first /\ "dueDate" \in DOMAIN second)
                    /\ ("dueDate" \in DOMAIN first /\ "dueDate" \in DOMAIN second) =>
                           IF view.sortOrder = "asc"
                           THEN first.dueDate <= second.dueDate
                           ELSE first.dueDate >= second.dueDate

\* the priority of a creation body is one of low, medium, high
ValidPriority(body) ==
    "priority" \in DOMAIN body /\ body.priority \in {"low", "medium", "high"}

C5_TitleOnlyAccepted ==
    (Creating /\ request.json /\ DOMAIN request.body = {"title"}
        /\ ~Blank(request.body.title) /\ Len(request.body.title) <= MaxTitleLength)
        => (response.status >= 200 /\ response.status < 400)

\* the tasks a list view filters: the tasks prop, or localTasks when it is empty
ViewSource == IF Len(view.tasks) > 0 THEN view.tasks ELSE view.localTasks

\* C6: for every query that specifies a category, every returned task has
\* exactly that category (case-sensitive): for GET /api/tasks?category=... and
\* for the list views' filters.
C6_CategoryExact ==
    /\ (Querying /\ "category" \in DOMAIN request.searchParams
            /\ response.status = HTTP_STATUS.OK)
        => \A i \in DOMAIN response.body.data :
               /\ "category" \in DOMAIN response.body.data[i]
               /\ response.body.data[i].category = request.searchParams.category
    /\ (output.rendered /\ view.component = "TaskList" /\ "currentFilter" \in DOMAIN view
            /\ "category" \in DOMAIN view.currentFilter)
        => \A i \in DOMAIN output.tasks :
               /\ "category" \in DOMAIN output.tasks[i]
               /\ output.tasks[i].category = view.currentFilter.category
    /\ (output.rendered /\ view.component = "StatelessTaskList"
            /\ "category" \in DOMAIN view.filter)
        => \A i \in DOMAIN output.tasks :
               /\ "category" \in DOMAIN output.tasks[i]
               /\ output.tasks[i].category = view.filter.category

QueryRules == {"status", "priority", "search"}

\* a query parameter is present with a value its rule forbids
RuleBroken(searchParams, rule) ==
    CASE rule = "status" ->
            /\ "status" \in DOMAIN searchParams
            /\ searchParams.status \notin {"all", "completed", "pending"}
      [] rule = "priority" ->
            /\ "priority" \in DOMAIN searchParams
            /\ searchParams.priority \notin {"low", "medium", "high"}
      [] rule = "search" ->
            /\ "search" \in DOMAIN searchParams
            /\ Len(searchParams.search) > MaxSearchLength

\* a query parameter is present with a non-empty value its rule forbids
RuleBrokenByValue(searchParams, rule) ==
    /\ RuleBroken(searchParams, rule)
    /\ rule = "status" => searchParams.status # ""
    /\ rule = "priority" => searchParams.priority # ""

ErrorsFor(errors, rule) == Cardinality({i \in DOMAIN errors : errors[i].param = rule})

\* C7 as stated: validation reports one error for each rule that the status,
\* priority or search value violates, and the query is valid exactly when the
\* error list is empty.
C7_EveryViolationReported ==
    Querying =>
        LET validation == validateAndParseQuery(request.searchParams)
        IN  /\ \A rule \in QueryRules :
                   ErrorsFor(validation.errors, rule) =
                       IF RuleBroken(request.searchParams, rule) THEN 1 ELSE 0
            /\ validation.isValid <=> validation.errors = <<>>

\* C7 amended: validation reports one error for each rule violated by a
\* non-empty value (an empty status or priority counts as absent), all of
\* them together, and the query is valid exactly when the list is empty.
C7_EveryValueViolationReported ==
    Querying =>
        LET validation == validateAndParseQuery(request.searchParams)
        IN  /\ \A rule \in QueryRules :
                   ErrorsFor(validation.errors, rule) =
                       IF RuleBrokenByValue(request.searchParams, rule) THEN 1 ELSE 0
            /\ validation.isValid <=> validation.errors = <<>>
            /\ response.status = HTTP_STATUS.BAD_REQUEST =>
                   response.body.error.details.errors = validation.errors

\* a query that violates the three rules at once is answered with three errors
C7_Witness ==
    /\ Querying
    /\ \A rule \in QueryRules : RuleBrokenByValue(request.searchParams, rule)
    /\ response.status = HTTP_STATUS.BAD_REQUEST
    /\ Len(response.body.error.details.errors) = 3

\* the response refuses the query: bad input, the errors, no items
Refused ==
    /\ response.status = HTTP_STATUS.BAD_REQUEST
    /\ ~response.body.success
    /\ response.body.error.code = API_ERROR_CODES.INVALID_QUERY_PARAMS
    /\ response.body.error.details.errors # <<>>
    /\ "data" \notin DOMAIN response.body

\* C8 as stated: whenever the status, priority or search parameter violates
\* its rule, GET /api/tasks refuses the query with a 400 response that carries
\* the errors and no items.
C8_InvalidQueryRefused ==
    (Querying /\ \E rule \in QueryRules : RuleBroken(request.searchParams, rule))
        => Refused

\* C8 amended: whenever the status, priority or search parameter carries a
\* non-empty value that violates its rule, GET /api/tasks refuses the query
\* with a 400 response that carries the errors and no items; an empty status
\* or priority is treated as absent.
C8_InvalidValueRefused ==
    Querying =>
        IF \E rule \in QueryRules : RuleBrokenByValue(request.searchParams, rule)
        THEN Refused
        ELSE response.status = HTTP_STATUS.OK

\* a query whose only fault is an unknown status is refused
C8_Witness ==
    /\ Querying
    /\ RuleBrokenByValue(request.searchParams, "status")
    /\ ~RuleBroken(request.searchParams, "priority")
    /\ ~RuleBroken(request.searchParams, "search")
    /\ Refused

\* the three-level default ordering: incomplete before completed, then HIGH
\* before MEDIUM before LOW, then the later createdAt first
DefaultOrdered(list) ==
    \A i, j \in DOMAIN list :
        i < j =>
            LET first == list[i]
                second == list[j]
            IN  /\ ~(first.completed /\ ~second.completed)
                /\ first.completed = second.completed =>
                       Rank(first.priority) >= Rank(second.priority)
                /\ (first.completed = second.completed
                        /\ first.priority = second.priority)
                    => first.createdAt >= second.createdAt

\* C9 as stated: with no explicit sort, the items of GET /api/tasks and of the
\* list views (the stateless one, and the one with preferences when the
\* preferences are the defaults) are in the three-level default ordering.
C9_DefaultOrderEverywhere ==
    /\ (Querying /\ response.status = HTTP_STATUS.OK)
        => DefaultOrdered(response.body.data)
    /\ (output.rendered /\ view.component = "StatelessTaskList")
        => DefaultOrdered(output.tasks)
    /\ (output.rendered /\ view.component = "TaskList"
            /\ view.userPreferences = DEFAULT_PREFERENCES)
        => DefaultOrdered(output.tasks)

\* C9 amended: the items of GET /api/tasks and of the stateless list view are
\* in the three-level default ordering; the list view with preferences orders
\* by its preference key alone.
C9_DefaultOrder ==
    /\ (Querying /\ response.status = HTTP_STATUS.OK)
        => DefaultOrdered(response.body.data)
    /\ (output.rendered /\ view.component = "StatelessTaskList")
        => DefaultOrdered(output.tasks)

\* a query returned completed and incomplete tasks, two of them alike in
\* completion and priority and created at different instants
C9_Witness ==
    /\ Querying /\ response.status = HTTP_STATUS.OK
    /\ \E i, j \in DOMAIN response.body.data :
           response.body.data[i].completed /\ ~response.body.data[j].completed
    /\ \E i, j \in DOMAIN response.body.data :
           /\ i < j
           /\ response.body.data[i].completed = response.body.data[j].completed
           /\ response.body.data[i].priority = response.body.data[j].priority
           /\ response.body.data[i].createdAt > response.body.data[j].createdAt

FoldCase(c) == IF c \in DOMAIN LowerCaseOf THEN LowerCaseOf[c] ELSE c

\* the term occurs in the text, letter case apart
Occurs(term, text) ==
    \E k \in 0..(Len(text) - Len(term)) :
        \A i \in 1..Len(term) : FoldCase(text[k + i]) = FoldCase(term[i])

SearchMatches(task, term) ==
    \/ Occurs(term, task.title)
    \/ "description" \in DOMAIN task /\ Occurs(term, task.description)

\* the status and priority of a query let the task through
QueryAdmits(searchParams, task) ==
    /\ ("status" \in DOMAIN searchParams /\ searchParams.status = "completed")
        => task.completed
    /\ ("status" \in DOMAIN searchParams /\ searchParams.status = "pending")
        => ~task.completed
    /\ ("priority" \in DOMAIN searchParams /\ searchParams.priority # "")
        => task.priority = searchParams.priority

\* the status, priority, category and hide-completed settings of the list
\* view with preferences let the task through
ViewAdmits(task) ==
    /\ view.currentFilter.status = "completed" => task.completed
    /\ view.currentFilter.status = "pending" => ~task.completed
    /\ "priority" \in DOMAIN view.currentFilter => task.priority = view.currentFilter.priority
    /\ "category" \in DOMAIN view.currentFilter =>
           ("category" \in DOMAIN task /\ task.category = view.currentFilter.category)
    /\ view.userPreferences.hideCompleted => ~task.completed

\* C10: when a search term is specified, a task (that passes the other
\* filters) is kept if and only if the lower-cased term is a substring of its
\* lower-cased title or description; a task without description is kept only
\* if its title matches.
C10_SearchKeeps ==
    /\ (Querying /\ response.status = HTTP_STATUS.OK
            /\ "search" \in DOMAIN request.searchParams)
        => \A i \in DOMAIN tasks :
               (tasks[i] \in Range(response.body.data)) <=>
                   /\ QueryAdmits(request.searchParams, tasks[i])
                   /\ SearchMatches(tasks[i], request.searchParams.search)
    /\ (output.rendered /\ view.component = "TaskList" /\ "currentFilter" \in DOMAIN view
            /\ "search" \in DOMAIN view.currentFilter)
        => \A i \in DOMAIN ViewSource :
               (ViewSource[i] \in Range(output.tasks)) <=>
                   /\ ViewAdmits(ViewSource[i])
                   /\ SearchMatches(ViewSource[i], view.currentFilter.search)

\* a search in another letter case kept a task for its description alone and
\* dropped a task without description
C10_Witness ==
    /\ Querying /\ response.status = HTTP_STATUS.OK
    /\ "search" \in DOMAIN request.searchParams
    /\ request.searchParams.search # toLowerCase(request.searchParams.search)
    /\ \E i \in DOMAIN response.body.data :
           ~Occurs(request.searchParams.search, response.body.data[i].title)
    /\ \E i \in DOMAIN tasks :
           /\ "description" \notin DOMAIN tasks[i]
           /\ tasks[i] \notin Range(response.body.data)

\* the query filters on the status alone
StatusOnly ==
    /\ "priority" \in DOMAIN request.searchParams => request.searchParams.priority = ""
    /\ "search" \in DOMAIN request.searchParams => request.searchParams.search = <<>>

\* the completion state the status of the query asks for
StatusKeeps(searchParams, task) ==
    IF "status" \in DOMAIN searchParams /\ searchParams.status = "completed" THEN task.completed
    ELSE IF "status" \in DOMAIN searchParams /\ searchParams.status = "pending" THEN ~task.completed
    ELSE TRUE

\* C11: status filtering keeps every task when the status is all or absent,
\* exactly the completed tasks when it is completed and exactly the incomplete
\* tasks when it is pending; filtering the completed tasks again by pending
\* yields the empty sequence.
C11_StatusFilter ==
    (Querying /\ response.status = HTTP_STATUS.OK) =>
        /\ StatusOnly =>
               /\ \A i \in DOMAIN tasks :
                      (tasks[i] \in Range(response.body.data))
                          <=> StatusKeeps(request.searchParams, tasks[i])
               /\ Len(response.body.data) =
                      Cardinality({i \in DOMAIN tasks :
                                       StatusKeeps(request.searchParams, tasks[i])})
        /\ \A i \in DOMAIN response.body.data :
               StatusKeeps(request.searchParams, response.body.data[i])
        /\ ("status" \in DOMAIN request.searchParams
                /\ request.searchParams.status = "completed")
            => filterTasks(response.body.data, [status |-> TaskStatus.PENDING]) = <<>>

\* a query for the completed tasks alone returned some tasks and dropped others
C11_Witness ==
    /\ Querying /\ response.status = HTTP_STATUS.OK
    /\ StatusOnly
    /\ "status" \in DOMAIN request.searchParams
    /\ request.searchParams.status = "completed"
    /\ response.body.data # <<>>
    /\ Len(response.body.data) < Len(tasks)

\* sub can be obtained from s by deleting elements
IsSubsequence(sub, s) ==
    LET embeds[i \in 0..Len(sub), j \in 0..Len(s)] ==
            IF i = 0 THEN TRUE
            ELSE IF j = 0 THEN FALSE
            ELSE (sub[i] = s[j] /\ embeds[i - 1, j - 1]) \/ embeds[i, j - 1]
    IN  embeds[Len(sub), Len(s)]

\* what filterTasks returns for the query being answered
Filtered == filterTasks(tasks, validateAndParseQuery(request.searchParams).params)

\* C12: the output of filterTasks is a subsequence of its input: every output
\* task is an input task, none appears more often than in the input, and the
\* kept tasks are in the input order.
C12_FilterSubsequence ==
    (Querying /\ response.status = HTTP_STATUS.OK) =>
        /\ IsSubsequence(Filtered, tasks)
        /\ Len(response.body.data) = Len(Filtered)
        /\ Range(response.body.data) = Range(Filtered)

\* a query kept several tasks, dropped one between two it kept, and the
\* response shows them in another order
C12_Witness ==
    /\ Querying /\ response.status = HTTP_STATUS.OK
    /\ Len(Filtered) >= 2
    /\ \E i, j, k \in DOMAIN tasks :
           /\ i < j /\ j < k
           /\ tasks[i] \in Range(Filtered)
           /\ tasks[j] \notin Range(Filtered)
           /\ tasks[k] \in Range(Filtered)
    /\ response.body.data # Filtered

\* C13: the statistics of a GET /api/tasks response are computed over the
\* full store, not over the filtered subset: total is the store size,
\* completed the number of completed stored tasks, pending = total -
\* completed, byPriority the number of stored tasks of each priority; so
\* completed + pending = total.
C13_StatsOverStore ==
    (Querying /\ response.status = HTTP_STATUS.OK) =>
        LET stats == response.body.meta.stats
            Stored(priority) == {i \in DOMAIN tasks : tasks[i].priority = priority}
        IN  /\ stats.total = Len(tasks)
            /\ response.body.meta.total = Len(tasks)
            /\ stats.completed = Cardinality({i \in DOMAIN tasks : tasks[i].completed})
            /\ stats.pending = Cardinality({i \in DOMAIN tasks : ~tasks[i].completed})
            /\ stats.pending = stats.total - stats.completed
            /\ stats.completed + stats.pending = stats.total
            /\ DOMAIN stats.byPriority = {"low", "medium", "high"}
            /\ \A priority \in {"low", "medium", "high"} :
                   stats.byPriority[priority] = Cardinality(Stored(priority))

\* a query that returned fewer tasks than the store holds, some of them
\* completed, reports the totals of the store
C13_Witness ==
    /\ Querying /\ response.status = HTTP_STATUS.OK
    /\ Len(response.body.data) < Len(tasks)
    /\ Len(tasks) > Len(SeedTasks)
    /\ response.body.meta.stats.total = Len(tasks)
    /\ response.body.meta.stats.completed > 0
    /\ response.body.meta.stats.pending > 0

\* C14: a successful query result reports the size of the filtered
\* subsequence as a count of its own (meta.filtered), equal to the number of
\* items returned.
C14_FilteredCount ==
    (Querying /\ response.status = HTTP_STATUS.OK) =>
        /\ "filtered" \in DOMAIN response.body.meta
        /\ response.body.meta.filtered = Len(response.body.data)

CreationFields == {"title", "description", "priority", "category"}

\* the body violates the constraint of the field
ConstraintBroken(body, field) ==
    CASE field = "title" ->
            \/ "title" \notin DOMAIN body
            \/ Blank(body.title)
            \/ Len(body.title) > MaxTitleLength
      [] field = "description" ->
            "description" \in DOMAIN body /\ Len(body.description) > MaxDescriptionLength
      [] field = "priority" -> ~ValidPriority(body)
      [] field = "category" ->
            "category" \in DOMAIN body /\ Len(body.category) > MaxCategoryLength

\* C15: creation validation is collected, not fail-fast: when a creation
\* request violates several constraints at once, the rejection carries one
\* error message for each violated constraint, naming its field.
C15_EveryIssueReported ==
    (Creating /\ request.json
        /\ Cardinality({field \in CreationFields :
                            ConstraintBroken(request.body, field)}) >= 2)
    => /\ response.status = HTTP_STATUS.BAD_REQUEST
       /\ response.body.error.code = API_ERROR_CODES.VALIDATION_ERROR
       /\ \A field \in CreationFields :
              Cardinality({i \in DOMAIN response.body.error.details.errors :
                               response.body.error.details.errors[i].path = field})
                  = IF ConstraintBroken(request.body, field) THEN 1 ELSE 0

\* the step is a creation request answered by POST
CreationStep == request.method # "POST" /\ request'.method = "POST"

C17_RejectedLeavesStore ==
    [][(CreationStep /\ response'.status # HTTP_STATUS.CREATED) =>
          /\ tasks' = tasks
          /\ response'.status = HTTP_STATUS.BAD_REQUEST
          /\ response'.body.success = FALSE
          /\ response'.body.error.code =
                 IF request'.json THEN API_ERROR_CODES.VALIDATION_ERROR
                 ELSE API_ERROR_CODES.INVALID_REQUEST_BODY
          /\ request'.json => response'.body.error.details.errors # <<>>]_vars

\* a creation request was rejected by the validation after another one had
\* been accepted, and the store still ends with the task created before
C17_Witness ==
    /\ Creating /\ request.json
    /\ response.status = HTTP_STATUS.BAD_REQUEST
    /\ Len(tasks) = Len(SeedTasks) + 1
    /\ tasks[Len(tasks)].id \in generateId

OnPage == view.component = "DemoPage"

\* every field of the task other than completed and updatedAt
Untouched(before, after) ==
    /\ DOMAIN after = DOMAIN before
    /\ \A field \in DOMAIN before \ {"completed", "updatedAt"} : after[field] = before[field]

\* the step is a completion toggle of the tasks with one id on the demo page:
\* the page keeps as many tasks and some task changes
ToggleStep ==
    /\ OnPage
    /\ Len(view'.tasks) = Len(view.tasks)
    /\ view'.tasks # view.tasks

\* C19: every task, in the store and on the demo page, satisfies updatedAt >=
\* createdAt after any sequence of create, completion-toggle and delete
\* operations; a completion toggle changes only the completed flag and
\* updatedAt of the targeted task, never its id or createdAt, and no other
\* task.
C19_UpdatedAfterCreated ==
    /\ [](/\ \A i \in DOMAIN tasks : tasks[i].updatedAt >= tasks[i].createdAt
          /\ OnPage => \A i \in DOMAIN view.tasks :
                           view.tasks[i].updatedAt >= view.tasks[i].createdAt)
    /\ [][ToggleStep =>
            \E taskId \in {view.tasks[i].id : i \in DOMAIN view.tasks} :
                \A i \in DOMAIN view.tasks :
                    IF view.tasks[i].id = taskId
                    THEN /\ Untouched(view.tasks[i], view'.tasks[i])
                         /\ view'.tasks[i].completed = ~view.tasks[i].completed
                         /\ view'.tasks[i].updatedAt = clock'
                    ELSE view'.tasks[i] = view.tasks[i]]_vars

\* the page holds a task created by its form, and a stored task that was
\* toggled to the other completion state after the page was mounted
C19_Witness ==
    /\ OnPage
    /\ \E i \in DOMAIN view.tasks :
           view.tasks[i].id \in generateId /\ view.tasks[i].createdAt >= Now0
    /\ \E i \in DOMAIN view.tasks :
           /\ view.tasks[i].id = "t1"
           /\ view.tasks[i].completed
           /\ view.tasks[i].createdAt < Now0
           /\ view.tasks[i].updatedAt > Now0

\* the stored tasks that carry the title of the concurrent request
StoredFor(r) ==
    {i \in DOMAIN tasks : tasks[i].title = ConcurrentRequests[r].body.title}

\* the record has every field a task must have
Complete(task) ==
    {"id", "title", "completed", "priority", "createdAt", "updatedAt"} \subseteq DOMAIN task

\* C20: for every interleaving of two concurrent valid creation requests at
\* their await points, each task is in the store exactly once as soon as its
\* request is answered and not before, no stored task is ever lost, and every
\* query returns stored, completely built tasks only: none, one or both of
\* the new ones.
C20_ConcurrentCreations ==
    /\ [](\A r \in DOMAIN inflight :
              Cardinality(StoredFor(r)) = IF inflight[r] = "done" THEN 1 ELSE 0)
    /\ []((Querying /\ response.status = HTTP_STATUS.OK) =>
              \A i \in DOMAIN response.body.data :
                  /\ response.body.data[i] \in Range(tasks)
                  /\ Complete(response.body.data[i]))
    /\ [][/\ Len(tasks') >= Len(tasks)
          /\ SubSeq(tasks', 1, Len(tasks)) = tasks]_vars

\* a query answered while the first request was still parsing its body
\* returned the task of the second request, which had arrived later or
\* earlier and was answered first, and not the task of the first
C20_Witness ==
    /\ inflight.first = "parsing"
    /\ inflight.second = "done"
    /\ Querying /\ response.status = HTTP_STATUS.OK
    /\ \E i \in DOMAIN response.body.data :
           response.body.data[i].title = ConcurrentRequests.second.body.title
    /\ \A i \in DOMAIN response.body.data :
           response.body.data[i].title # ConcurrentRequests.first.body.title

\* the sequence is the same after one more sort with the comparator of GET
ResortedByGET(list) ==
    SortWith(list, [i \in DOMAIN list, j \in DOMAIN list |->
                       sortedTasksCompare(list[i], list[j])])

\* the sequence is the same after one more sort with the comparator of the
\* stateless list view
ResortedByList(list) ==
    SortWith(list, [i \in DOMAIN list, j \in DOMAIN list |->
                       listSortedTasksCompare(list[i], list[j])])

\* two different tasks at different positions tie on completion, priority
\* and createdAt
TiedTasks(list) ==
    \E i, j \in DOMAIN list :
        /\ i < j
        /\ list[i] # list[j]
        /\ list[i].completed = list[j].completed
        /\ list[i].priority = list[j].priority
        /\ list[i].createdAt = list[j].createdAt

\* C21: the default three-level ordering is idempotent: sorting the sorted
\* tasks of a query, or of the stateless list view, again with the same
\* comparator gives the identical sequence, also when tasks tie on completion,
\* priority and createdAt.
C21_DefaultSortIdempotent ==
    /\ (Querying /\ response.status = HTTP_STATUS.OK)
        => ResortedByGET(response.body.data) = response.body.data
    /\ (output.rendered /\ view.component = "StatelessTaskList")
        => ResortedByList(output.tasks) = output.tasks

\* a query returned two different tasks that tie on all three keys, and the
\* sort had changed the order the kept tasks have in the store
C21_Witness ==
    /\ Querying /\ response.status = HTTP_STATUS.OK
    /\ TiedTasks(response.body.data)
    /\ response.body.data # Filtered

Reverse(list) == [i \in 1..Len(list) |-> list[Len(list) + 1 - i]]

\* sortTasks was called to sort by title
SortedByTitle ==
    /\ view.component = "sortTasks"
    /\ view.sortBy = "title"
    /\ output.rendered

OtherOrder(sortOrder) == IF sortOrder = "asc" THEN "desc" ELSE "asc"

\* no two tasks of the list have the same title
DistinctTitles(list) ==
    \A i, j \in DOMAIN list : i # j => list[i].title # list[j].title

\* no two tasks of the list have titles that localeCompare finds equal
DistinctCollation(list) ==
    \A i, j \in DOMAIN list : i # j => localeCompare(list[i].title, list[j].title) # 0

\* C22 as stated: for every task collection with pairwise distinct titles,
\* sortTasks by title ascending followed by reversing the result equals
\* sortTasks by title descending.
C22_TitleReversal ==
    (SortedByTitle /\ DistinctTitles(view.tasks)) =>
        Reverse(output.tasks) = sortTasks(view.tasks, "title", OtherOrder(view.sortOrder))

\* C22, amended: for every task collection in which no two titles compare
\* equal under localeCompare, sortTasks by title ascending followed by
\* reversing the result equals sortTasks by title descending.
C22_TitleReversalUnderCollation ==
    (SortedByTitle /\ DistinctCollation(view.tasks)) =>
        Reverse(output.tasks) = sortTasks(view.tasks, "title", OtherOrder(view.sortOrder))

\* three tasks were sorted by title in descending order; two of the titles
\* differ only in case, none compares equal to another, and the sort changed
\* the order of the tasks
C22_Witness ==
    /\ SortedByTitle
    /\ view.sortOrder = "desc"
    /\ Len(view.tasks) = 3
    /\ DistinctCollation(view.tasks)
    /\ \E i, j \in DOMAIN view.tasks :
           /\ view.tasks[i].title # view.tasks[j].title
           /\ toLowerCase(view.tasks[i].title) = toLowerCase(view.tasks[j].title)
    /\ output.tasks # view.tasks
    /\ output.tasks # Reverse(view.tasks)

\* the query without its search parameter
WithoutSearch(searchParams) ==
    [name \in DOMAIN searchParams \ {"search"} |-> searchParams[name]]

\* the query has no search term: the parameter is absent or empty
NoSearchTerm ==
    "search" \in DOMAIN request.searchParams => request.searchParams.search = <<>>

\* C23: for every store and every choice of the other filter fields, a query
\* with an empty search term and a query with an absent search term get the
\* response of the query with no search parameter at all, and a successful
\* one returns exactly the stored tasks its status and priority let through.
C23_EmptySearchIsNoSearch ==
    (Querying /\ NoSearchTerm) =>
        /\ response = GETResponse(tasks, WithoutSearch(request.searchParams))
        /\ response.status = HTTP_STATUS.OK =>
               /\ \A i \in DOMAIN tasks :
                      (tasks[i] \in Range(response.body.data))
                          <=> QueryAdmits(request.searchParams, tasks[i])
               /\ Len(response.body.data) =
                      Cardinality({i \in DOMAIN tasks :
                                      QueryAdmits(request.searchParams, tasks[i])})

\* a query with the parameter search given empty and a priority was answered
\* with some tasks of the store and without others
C23_Witness ==
    /\ Querying /\ response.status = HTTP_STATUS.OK
    /\ "search" \in DOMAIN request.searchParams
    /\ request.searchParams.search = <<>>
    /\ "priority" \in DOMAIN request.searchParams
    /\ response.body.data # <<>>
    /\ Len(response.body.data) < Len(tasks)

\* a step in which GET answers a query
QueryStep == request = NoRequest /\ request'.method = "GET"

\* C24: a GET /api/tasks request never changes the store: after any query,
\* valid or invalid, filtered or unfiltered, the store holds the same tasks in
\* the same order as before, although the handler sorts its result in place.
C24_QueryLeavesStore ==
    [][QueryStep => tasks' = tasks]_vars

\* an unfiltered query was answered with all the tasks of the store, in
\* another order than the store keeps them
C24_Witness ==
    /\ Querying /\ response.status = HTTP_STATUS.OK
    /\ DOMAIN request.searchParams = {}
    /\ Len(response.body.data) = Len(tasks)
    /\ response.body.data # tasks

\* the demo page with its list view is on screen
OnListPage == view.component = "TaskListPage"

\* C25: after a task has been deleted through the list view (confirmation
\* accepted and the page's delete handler run), and no toggle was involved,
\* that task is not among the tasks the list displays, also when it was the
\* last task remaining.
C25_DeletedNotDisplayed ==
    (OnListPage /\ view.deletion.state = "done" /\ view.toggle.state = "idle")
        => view.deletion.taskId \notin displayed(view)

\* the same at the end of every deletion that leaves a task on the page
C25_DeletedNotDisplayedUnlessLast ==
    [][(OnListPage /\ view.deletion.state = "waiting"
            /\ view'.deletion.state = "done" /\ Len(view'.tasks) > 0)
        => view'.deletion.taskId \notin displayed(view')]_vars

\* the completed flag the task had in the list
CompletedIn(list, taskId) ==
    LET i == CHOOSE i \in DOMAIN list : list[i].id = taskId
    IN  list[i].completed

\* the deletion and the toggle have taken effect in the list
BothApplied(list) ==
    /\ \A i \in DOMAIN list : list[i].id # view.deletion.taskId
    /\ \E i \in DOMAIN list : list[i].id = view.toggle.taskId
    /\ CompletedIn(list, view.toggle.taskId)
           = ~CompletedIn(view.toggle.closure, view.toggle.taskId)

IdsOf(list) == {list[i].id : i \in DOMAIN list}

\* a deletion request is in its delay or done only with its promise settled
\* true by onConfirm, and is cancelled only with it settled false by onCancel
AnsweredAsRecorded ==
    /\ view.deletion.state \in {"waiting", "done"} =>
           /\ view.hook.promises[view.deletion.promise] = "true"
           /\ dialogCallback(view.deletion.answer) = "onConfirm"
    /\ view.deletion.state = "cancelled" =>
           /\ view.hook.promises[view.deletion.promise] = "false"
           /\ dialogCallback(view.deletion.answer) = "onCancel"

\* the step cancels the dialog of a deletion request
CancelStep == view.deletion.state = "confirming" /\ view'.deletion.state = "cancelled"

\* the tasks that leave the page or the storage in the step
Removed ==
    (IdsOf(view.tasks) \ IdsOf(view'.tasks)) \cup (IdsOf(view.storage) \ IdsOf(view'.storage))

\* the step runs onDeleteTask for the request whose delay is over
DeletionStep == view.deletion.state = "waiting" /\ view'.deletion.state = "done"

\* C27: in the list view a task is deleted only after the user confirms the
\* dialog opened for that task: onDeleteTask runs only for a request that
\* onConfirm answered and takes no other task than the confirmed one from the
\* page or the storage; a cancelled dialog (Cancel button, Escape key,
\* backdrop click) changes neither the page's tasks nor the storage nor the
\* list, and its request never deletes.
C27_DeleteOnlyAfterConfirm ==
    /\ [](OnListPage => AnsweredAsRecorded)
    /\ [][OnListPage =>
            /\ DeletionStep => Removed \subseteq {view.deletion.taskId}
            /\ CancelStep =>
                   /\ view'.tasks = view.tasks
                   /\ view'.storage = view.storage
                   /\ view'.localTasks = view.localTasks
            /\ (view.deletion.state = "cancelled"
                    /\ view'.deletion.promise = view.deletion.promise) =>
                   view'.deletion = view.deletion]_vars

\* what holds of the dialog: onDeleteTask runs only for a request that
\* onConfirm answered, and the task of that request is then neither on the
\* page nor in storage; a cancelled dialog changes nothing and its request
\* never deletes
C27_CancelNeverDeletes ==
    /\ [](OnListPage => AnsweredAsRecorded)
    /\ [][OnListPage =>
            /\ DeletionStep =>
                   view.deletion.taskId \notin IdsOf(view'.tasks) \cup IdsOf(view'.storage)
            /\ CancelStep =>
                   /\ view'.tasks = view.tasks
                   /\ view'.storage = view.storage
                   /\ view'.localTasks = view.localTasks
            /\ (view.deletion.state = "cancelled"
                    /\ view'.deletion.promise = view.deletion.promise) =>
                   view'.deletion = view.deletion]_vars

\* a component uses the hook directly
OnHook == view.component = "useConfirmationDialog"

\* C28: once the user has answered the dialog, every promise returned by
\* confirm is settled, the dialog is closed and loading is false, also when
\* confirm was called again before an earlier dialog was answered.
C28_EveryPromiseSettled ==
    (OnHook /\ ~view.hook.dialog.isOpen) =>
        /\ \A p \in DOMAIN view.hook.promises : view.hook.promises[p] # "pending"
        /\ ~view.hook.loading

\* what holds of the hook: once the dialog is closed, the promise of the
\* latest call of confirm is settled and loading is false
C28_LatestPromiseSettled ==
    (OnHook /\ ~view.hook.dialog.isOpen /\ view.hook.promises # <<>>) =>
        /\ view.hook.promises[Len(view.hook.promises)] # "pending"
        /\ ~view.hook.loading

\* the toast provider is on screen
OnToasts == view.component = "ToastProvider"

\* the n-th toast added is in the list
InList(n) == \E i \in DOMAIN view.toasts : view.toasts[i].n = n

\* the n-th toast added is in the list and has a positive duration
TimedInList(n) ==
    \E i \in DOMAIN view.toasts : view.toasts[i].n = n /\ view.toasts[i].duration > 0

\* C29 as stated: in every reachable state of the provider the number of
\* toasts held is at most maxToasts, and the most recently added toast is
\* first in the list.
C29_AtMostMaxNewestFirst ==
    OnToasts =>
        /\ Len(view.toasts) <= view.maxToasts
        /\ view.added > 0 => (view.toasts # <<>> /\ view.toasts[1].n = view.added)

\* C29, amended: the number of toasts held is at most maxToasts, the toasts
\* are held newest first, and the toast that addToast adds is first in the
\* list until it is removed or the list is cleared.
C29_AtMostMaxNewestFirstWhileHeld ==
    /\ [](OnToasts =>
            /\ Len(view.toasts) <= view.maxToasts
            /\ \A i, j \in DOMAIN view.toasts :
                   i < j => view.toasts[i].n > view.toasts[j].n
            /\ InList(view.added) => view.toasts[1].n = view.added)
    /\ [][(OnToasts /\ view'.added = view.added + 1) =>
             view'.toasts[1].n = view'.added]_vars

\* a provider with maxToasts 2 was full when two more toasts were added, one
\* after the other: it holds the two newest, the newest first
C29_Witness ==
    /\ OnToasts
    /\ view.maxToasts = 2
    /\ view.added = 4
    /\ view.fired = {}
    /\ Len(view.toasts) = 2
    /\ view.toasts[1].n = 4
    /\ view.toasts[2].n = 3

\* C30: every toast added with a positive duration (5000 ms when none is
\* given) is eventually out of the list provided that its timer fires, whether
\* or not it was dismissed or pushed out first; removing an id that no toast
\* of the list has leaves the list unchanged, also when a timer does it.
C30_TimedToastsRemoved ==
    /\ \A n \in 1..MaxToastAdds : [](TimedInList(n) => <>~InList(n))
    /\ [](OnToasts =>
            \A id \in RemovableIds(view) :
                (\A i \in DOMAIN view.toasts : view.toasts[i].id # id)
                    => removeToast(view.toasts, id) = view.toasts)
    /\ [][(OnToasts /\ view'.fired # view.fired) =>
             \A timer \in view.timers \ view'.timers :
                 IF \E i \in DOMAIN view.toasts : view.toasts[i].id = timer.id
                 THEN /\ Len(view'.toasts) < Len(view.toasts)
                      /\ \A i \in DOMAIN view'.toasts : view'.toasts[i].id # timer.id
                 ELSE view'.toasts = view.toasts]_vars

\* three toasts were given to a provider with maxToasts 2; the timers of the
\* first two have fired and neither toast is in the list, the third toast is
\* in the list and its timer is pending
C30_Witness ==
    /\ OnToasts
    /\ view.maxToasts = 2
    /\ view.added = 3
    /\ view.fired = {1, 2}
    /\ view.timers # {}
    /\ view.toasts # <<>>
    /\ \A i \in DOMAIN view.toasts : view.toasts[i].n = 3

====
